---- MODULE Spec2Model ----
(***************************************************************************)
(* CourseFlow: reconciliation of a degree-audit (TDA) export with the      *)
(* curriculum flowchart.  The module models                                *)
(*   - the text helpers of tda/textUtils.js (normCode, parseDeptNumPart,   *)
(*     EQUIV, isPlaceholderAL, isPassingGrade),                            *)
(*   - the equivalency matchers of ProgramMap.jsx (isIpMatch,              *)
(*     isSatisfiedWithEquivs, egecAlternates),                             *)
(*   - the transcript-row extraction of tda/courseRows.js (free text and   *)
(*     HTML) and the evidence sets built from the rows,                    *)
(*   - the 3U/Z and C.3/Z merge of tda/geParser.js,                        *)
(*   - the import handler importFromTDA of ProgramMap.jsx together with    *)
(*     the manual edits of the flowchart.                                  *)
(* Strings are TLA+ strings; a character is a string of length one.        *)
(***************************************************************************)
EXTENDS Integers, Sequences, FiniteSets, TLC

VARIABLES
    eqv,        \* SpecEquiv: one query of the equivalency matchers
    rowv,       \* SpecRows: one transcript and what each extraction path made of it
    gev,        \* SpecGe: the two sides of a dual-source GE slot and their merge
    planv,      \* SpecPlan: one labelling of a course map and the problems checkPlan reports
    labels,     \* React state `labels`: node id -> label ("" = no entry)
    notes,      \* React state `notes`: node id -> note ("" = no entry)
    labelSrc,   \* ghost: which run (or 0 = manual edit) wrote each label entry
    noteSrc,    \* ghost: which run (or 0 = manual edit) wrote each note entry
    runs,       \* one record per invocation of importFromTDA
    onchange,   \* fileInputRef.current.onchange: the run whose promise it resolves (0 = unset)
    editor,     \* React state `editor`: the node whose note is being edited ("" = closed)
    edits,      \* number of manual edits made so far
    last        \* ghost: the handler that ran last and, for a commit, its accumulators

vars == <<eqv, rowv, gev, planv, labels, notes, labelSrc, noteSrc, runs, onchange, editor, edits, last>>

pureVars == <<eqv, rowv, gev, planv>>

importVars == <<labels, notes, labelSrc, noteSrc, runs, onchange, editor, edits, last>>

-----------------------------------------------------------------------------
(* Characters and strings *)

\* s.charAt(i - 1), s.slice(k), s.slice(0, k): out-of-range indexes give ""
Ch(s, i) == IF i >= 1 /\ i <= Len(s) THEN SubSeq(s, i, i) ELSE ""

Drop(s, k) == IF k >= Len(s) THEN "" ELSE SubSeq(s, k + 1, Len(s))

Take(s, k) == IF k >= Len(s) THEN s ELSE SubSeq(s, 1, k)

\* the letters: lower case -> upper case
UpperOf ==
    ("a" :> "A") @@ ("b" :> "B") @@ ("c" :> "C") @@ ("d" :> "D") @@ ("e" :> "E")
    @@ ("f" :> "F") @@ ("g" :> "G") @@ ("h" :> "H") @@ ("i" :> "I") @@ ("j" :> "J")
    @@ ("k" :> "K") @@ ("l" :> "L") @@ ("m" :> "M") @@ ("n" :> "N") @@ ("o" :> "O")
    @@ ("p" :> "P") @@ ("q" :> "Q") @@ ("r" :> "R") @@ ("s" :> "S") @@ ("t" :> "T")
    @@ ("u" :> "U") @@ ("v" :> "V") @@ ("w" :> "W") @@ ("x" :> "X") @@ ("y" :> "Y")
    @@ ("z" :> "Z")

UpperAlpha ==
    {"A", "B", "C", "D", "E", "F", "G", "H", "I", "J", "K", "L", "M",
     "N", "O", "P", "Q", "R", "S", "T", "U", "V", "W", "X", "Y", "Z"}

Digits == {"0", "1", "2", "3", "4", "5", "6", "7", "8", "9"}

IsUpper(c) == c \in UpperAlpha

IsLower(c) == c \in DOMAIN UpperOf

IsDigit(c) == c \in Digits

\* \s of a JavaScript regular expression (the members that occur in the inputs)
IsSpace(c) == c \in {" ", "\t", "\n", "\r"}

ToUpperCh(c) == IF c \in DOMAIN UpperOf THEN UpperOf[c] ELSE c

ToLowerCh(c) == IF c \in UpperAlpha THEN CHOOSE l \in DOMAIN UpperOf : UpperOf[l] = c ELSE c

\* the spelling "cpsc-120" of "CPSC 120": lower case, hyphen for the space
RECURSIVE ToLowerDash(_)
ToLowerDash(s) ==
    IF s = "" THEN ""
    ELSE (IF Ch(s, 1) = " " THEN "-" ELSE ToLowerCh(Ch(s, 1))) \o ToLowerDash(Drop(s, 1))

RECURSIVE ToUpper(_)
ToUpper(s) == IF s = "" THEN "" ELSE ToUpperCh(Ch(s, 1)) \o ToUpper(Drop(s, 1))

\* length of the leading run of upper-case letters, spaces, separators, zeros
RECURSIVE UpperRun(_)
UpperRun(s) == IF s = "" \/ ~IsUpper(Ch(s, 1)) THEN 0 ELSE 1 + UpperRun(Drop(s, 1))

RECURSIVE SpaceRun(_)
SpaceRun(s) == IF s = "" \/ ~IsSpace(Ch(s, 1)) THEN 0 ELSE 1 + SpaceRun(Drop(s, 1))

IsSep(c) == c = "-" \/ IsSpace(c)

RECURSIVE SepRun(_)
SepRun(s) == IF s = "" \/ ~IsSep(Ch(s, 1)) THEN 0 ELSE 1 + SepRun(Drop(s, 1))

RECURSIVE ZeroRun(_)
ZeroRun(s) == IF s = "" \/ Ch(s, 1) # "0" THEN 0 ELSE 1 + ZeroRun(Drop(s, 1))

RECURSIVE StripSpaces(_)
StripSpaces(s) ==
    IF s = "" THEN ""
    ELSE IF IsSpace(Ch(s, 1)) THEN StripSpaces(Drop(s, 1))
    ELSE Ch(s, 1) \o StripSpaces(Drop(s, 1))

RECURSIVE TrimRight(_)
TrimRight(s) ==
    IF s # "" /\ IsSpace(Ch(s, Len(s))) THEN TrimRight(Take(s, Len(s) - 1)) ELSE s

Trim(s) == TrimRight(Drop(s, SpaceRun(s)))

EndsWith(s, suf) == Len(s) >= Len(suf) /\ Drop(s, Len(s) - Len(suf)) = suf

-----------------------------------------------------------------------------
(* tda/textUtils.js *)

\* t.replace(/[-\s]+/g, " "): every run of hyphens / whitespace becomes one space
RECURSIVE CollapseSeps(_)
CollapseSeps(s) ==
    IF s = "" THEN ""
    ELSE IF IsSep(Ch(s, 1)) THEN " " \o CollapseSeps(Drop(s, SepRun(s)))
    ELSE Ch(s, 1) \o CollapseSeps(Drop(s, 1))

\* the replacement "$1 $2" put in front of the white space instead of in its place
InsertDeptSpace_KeepGap(t) ==
    LET L == UpperRun(t)
        k == SpaceRun(Drop(t, L))
    IN  IF L >= 2 /\ L <= 6 /\ Len(t) > L + k /\ IsDigit(Ch(t, L + k + 1))
        THEN Take(t, L) \o " " \o Drop(t, L)
        ELSE t

\* t.replace(/^([A-Z]{2,6})\s*(\d)/, "$1 $2")
InsertDeptSpace(t) ==
    LET L == UpperRun(t)
        k == SpaceRun(Drop(t, L))
    IN  IF L >= 2 /\ L <= 6 /\ Len(t) > L + k /\ IsDigit(Ch(t, L + k + 1))
        THEN Take(t, L) \o " " \o Drop(t, L + k)
        ELSE t

\* /^POLSC\s*0*1$/.test(t)
IsPolsc1(t) ==
    /\ Take(t, 5) = "POLSC"
    /\ LET r  == Drop(t, 5)
           r1 == Drop(r, SpaceRun(r))
       IN  Drop(r1, ZeroRun(r1)) = "1"

normCode(s) ==
    LET Polsc(t) == IF IsPolsc1(t) THEN "POSC 100" ELSE t
    IN  Polsc(InsertDeptSpace(Trim(CollapseSeps(ToUpper(s)))))

NoParse == [ok |-> FALSE, dept |-> "", num |-> "", part |-> "", base |-> ""]

\* /^([A-Z]{2,5})\s+(\d{3})([A-Z]?)(?:\/L)?$/i.exec(normCode(code))
\* n: the normalised code; L: the length of its department; r: what follows
\* the separator; part: the letter after the three digits
parseDeptNumPart(code) ==
    LET Groups(n, L, r, part) ==
            IF /\ L >= 2 /\ L <= 5 /\ Len(n) > Len(r) + L
               /\ Len(r) >= 3
               /\ \A i \in 1..3 : IsDigit(Ch(r, i))
               /\ Drop(r, 3 + Len(part)) \in {"", "/L"}
            THEN [ok |-> TRUE, dept |-> Take(n, L), num |-> Take(r, 3), part |-> part,
                  base |-> Take(n, L) \o " " \o Take(r, 3)]
            ELSE NoParse
        Tail3(n, L, r) == Groups(n, L, r, IF IsUpper(Ch(r, 4)) THEN Ch(r, 4) ELSE "")
        Dept(n, L) == Tail3(n, L, Drop(n, L + SpaceRun(Drop(n, L))))
        Exec(n) == Dept(n, UpperRun(n))
    IN  Exec(normCode(code))

\* the table with its first entry left out
EQUIV_Without120 ==
    ("CPSC 121" :> [combined |-> "CPSC 121", parts |-> <<"CPSC 121A", "CPSC 121L">>])

EQUIV ==
    ("CPSC 120" :> [combined |-> "CPSC 120", parts |-> <<"CPSC 120A", "CPSC 120L">>])
    @@ ("CPSC 121" :> [combined |-> "CPSC 121", parts |-> <<"CPSC 121A", "CPSC 121L">>])

isPlaceholderAL(code) == normCode(code) \in {"CPSC 120A/L", "CPSC 121A/L"}

\* String(g).toUpperCase().replace(/\s+/g, "").replace(/^\+/, "") against
\* /^(A|B|C)(\+|-)?$/, "CR", "P"
isPassingGrade(g) ==
    LET u == StripSpaces(ToUpper(g))
        s == IF Take(u, 1) = "+" THEN Drop(u, 1) ELSE u
    IN  \/ s \in {"A", "B", "C", "A+", "B+", "C+", "A-", "B-", "C-"}
        \/ s = "CR"
        \/ s = "P"

-----------------------------------------------------------------------------
(* ProgramMap.jsx: equivalency / matching helpers *)

\* what both matchers read off the code before they look at the set: its normal
\* form n, whether parseDeptNumPart matched, the part letter, the key
\* `${dept} ${num}` and isPlaceholderAL(n)
EquivForm(flowCode) ==
    LET Keyed(n, parts) ==
            [n |-> n, ok |-> parts.ok, part |-> parts.part,
             key |-> parts.dept \o " " \o parts.num, placeholder |-> isPlaceholderAL(n)]
        Norm(n) == Keyed(n, parseDeptNumPart(n))
    IN  Norm(normCode(flowCode))

\* a matcher that looks for the combined code only
IpMatch_CombinedOnly(q, ipSet) ==
    IF ~q.ok THEN FALSE
    ELSE IF q.key \notin DOMAIN EQUIV THEN q.n \in ipSet
    ELSE EQUIV[q.key].combined \in ipSet

\* a part-form query that accepts either part
IpMatch_AnyPart(q, ipSet) ==
    IF ~q.ok THEN FALSE
    ELSE IF q.key \notin DOMAIN EQUIV THEN q.n \in ipSet
    ELSE \/ EQUIV[q.key].combined \in ipSet
         \/ EQUIV[q.key].parts[1] \in ipSet
         \/ EQUIV[q.key].parts[2] \in ipSet

IpMatch(q, ipSet) ==
    IF ~q.ok THEN FALSE
    ELSE IF q.key \notin DOMAIN EQUIV THEN q.n \in ipSet
    ELSE IF q.part = "" \/ q.placeholder
         THEN \/ EQUIV[q.key].combined \in ipSet
              \/ EQUIV[q.key].parts[1] \in ipSet
              \/ EQUIV[q.key].parts[2] \in ipSet
    ELSE \/ (q.key \o q.part) \in ipSet
         \/ EQUIV[q.key].combined \in ipSet

isIpMatch(flowCode, ipSet) == IpMatch(EquivForm(flowCode), ipSet)

\* a combined query that accepts one part, as the in-progress matcher does
SatisfiedWithEquivs_EitherPart(q, passedSet) ==
    IF ~q.ok THEN FALSE
    ELSE IF q.key \notin DOMAIN EQUIV THEN q.n \in passedSet
    ELSE IF q.part = "" \/ q.placeholder
         THEN \/ EQUIV[q.key].combined \in passedSet
              \/ EQUIV[q.key].parts[1] \in passedSet
              \/ EQUIV[q.key].parts[2] \in passedSet
    ELSE \/ (q.key \o q.part) \in passedSet
         \/ EQUIV[q.key].combined \in passedSet

SatisfiedWithEquivs(q, passedSet) ==
    IF ~q.ok THEN FALSE
    ELSE IF q.key \notin DOMAIN EQUIV THEN q.n \in passedSet
    ELSE IF q.part = "" /\ ~q.placeholder
         THEN \/ EQUIV[q.key].combined \in passedSet
              \/ (EQUIV[q.key].parts[1] \in passedSet /\ EQUIV[q.key].parts[2] \in passedSet)
    ELSE IF q.placeholder
         THEN \/ EQUIV[q.key].combined \in passedSet
              \/ (EQUIV[q.key].parts[1] \in passedSet /\ EQUIV[q.key].parts[2] \in passedSet)
    ELSE \/ (q.key \o q.part) \in passedSet
         \/ EQUIV[q.key].combined \in passedSet

isSatisfiedWithEquivs(flowCode, passedSet) == SatisfiedWithEquivs(EquivForm(flowCode), passedSet)

NoDeptNum == [ok |-> FALSE, dept |-> "", num |-> ""]

\* /^([A-Z]{2,5})\s+(\d{3}[A-Z]?L?)$/i.exec(normCode(code))
parseDeptNum(code) ==
    LET Groups(n, L, r) ==
            IF /\ L >= 2 /\ L <= 5 /\ Len(n) > Len(r) + L
               /\ Len(r) >= 3
               /\ \A i \in 1..3 : IsDigit(Ch(r, i))
               /\ \/ Len(r) = 3
                  \/ Len(r) = 4 /\ IsUpper(Ch(r, 4))
                  \/ Len(r) = 5 /\ IsUpper(Ch(r, 4)) /\ Ch(r, 5) = "L"
            THEN [ok |-> TRUE, dept |-> Take(n, L), num |-> r]
            ELSE NoDeptNum
        Dept(n, L) == Groups(n, L, Drop(n, L + SpaceRun(Drop(n, L))))
        Exec(n) == Dept(n, UpperRun(n))
    IN  Exec(normCode(code))

egecAlternates(code) ==
    LET Alts(dn) ==
            IF ~dn.ok \/ dn.dept # "EGEC" THEN <<>>
            ELSE << normCode("EGCP " \o dn.num), normCode("EGEE " \o dn.num),
                    normCode("EGCE " \o dn.num), normCode("EGME " \o dn.num) >>
    IN  Alts(parseDeptNum(code))

-----------------------------------------------------------------------------
(* SpecEquiv: the equivalency matchers applied to one flowchart code and one
   evidence set.  A query carries, beside the text handed to the matcher, the
   equivalency key and the form the text is written in.                      *)

\* codes without equivalency entry, in normal form, as the row patterns
\* ([A-Z]{2,6} and \d{3,4}[A-Z]?L?) let them through
PlainCodes == {"BIOL 101L", "CPSC 301AL", "MATH 1500", "KINESI 101", "AB 100"}

EquivQueries ==
    UNION { { [text |-> k,                    key |-> k, form |-> "combined"],
              [text |-> ToLowerDash(k),       key |-> k, form |-> "combined"],
              [text |-> k \o "A/L",           key |-> k, form |-> "placeholder"],
              [text |-> k \o "A",             key |-> k, form |-> "partA"],
              [text |-> k \o "L",             key |-> k, form |-> "partL"] }
            : k \in DOMAIN EQUIV }
    \cup { [text |-> "cpsc120a", key |-> "CPSC 120", form |-> "partA"],
           [text |-> "CPSC 131", key |-> "",         form |-> "plain"],
           [text |-> "EGEC 180", key |-> "",         form |-> "plain"] }
    \cup { [text |-> c, key |-> "", form |-> "plain"] : c \in PlainCodes }

EquivUniverse ==
    {"CPSC 120", "CPSC 120A", "CPSC 120L", "CPSC 121", "CPSC 121A", "CPSC 121L", "CPSC 131"}

EquivIdle ==
    [q |-> [text |-> "", key |-> "", form |-> "plain"], set |-> {},
     satDone |-> FALSE, sat |-> FALSE, ipDone |-> FALSE, ip |-> FALSE,
     x |-> "", applied |-> 0, once |-> "", twice |-> ""]

EquivInit ==
    /\ eqv \in { [EquivIdle EXCEPT !.q = q, !.set = S] :
                    q \in EquivQueries, S \in SUBSET EquivUniverse \cup SUBSET PlainCodes }

CheckSatisfied ==
    /\ ~eqv.satDone
    /\ eqv' = [eqv EXCEPT !.satDone = TRUE,
                          !.sat = isSatisfiedWithEquivs(eqv.q.text, eqv.set)]
    /\ UNCHANGED <<rowv, gev, planv, importVars>>

CheckIp ==
    /\ ~eqv.ipDone
    /\ eqv' = [eqv EXCEPT !.ipDone = TRUE, !.ip = isIpMatch(eqv.q.text, eqv.set)]
    /\ UNCHANGED <<rowv, gev, planv, importVars>>

-----------------------------------------------------------------------------
(* SpecNorm: normCode applied to a string and then to its own result.  The
   strings are the concatenations of up to MaxTokens tokens.                 *)

MaxTokens == 3

NormTokens == {"cpsc", "polsc", "ABCDEFG", "-", " ", "\t", "1", "01", "120", "a", "L", "/"}

RECURSIVE Concats(_)
Concats(n) ==
    IF n = 0 THEN {""}
    ELSE Concats(n - 1) \cup { s \o t : s \in Concats(n - 1), t \in NormTokens }

NormInit == eqv \in { [EquivIdle EXCEPT !.x = x] : x \in Concats(MaxTokens) }

NormOnce ==
    /\ eqv.applied = 0
    /\ eqv' = [eqv EXCEPT !.applied = 1, !.once = normCode(eqv.x)]
    /\ UNCHANGED <<rowv, gev, planv, importVars>>

NormTwice ==
    /\ eqv.applied = 1
    /\ eqv' = [eqv EXCEPT !.applied = 2, !.twice = normCode(eqv.once)]
    /\ UNCHANGED <<rowv, gev, planv, importVars>>

-----------------------------------------------------------------------------
(* tda/courseRows.js: transcript rows of a free-text audit.  The text is a
   sequence of lines [term, course, units, grade]; term and units are taken to
   match their part of rowRx, the course and grade tokens are matched here.   *)

\* \w of a JavaScript regular expression
IsWord(c) == IsUpper(c) \/ IsLower(c) \/ IsDigit(c) \/ c = "_"

\* (\d{3,4}[A-Z]?L?) against the whole of r, r in upper case
IsCourseNum(r) ==
    \E d \in {3, 4} :
        /\ Len(r) >= d
        /\ \A i \in 1..d : IsDigit(Ch(r, i))
        /\ LET tl == Drop(r, d)
           IN  \/ tl = ""
               \/ Len(tl) = 1 /\ IsUpper(tl)
               \/ Len(tl) = 2 /\ IsUpper(Ch(tl, 1)) /\ Ch(tl, 2) = "L"

NoCourse == [ok |-> FALSE, dept |-> "", num |-> ""]

\* ([A-Z]{2,6})[-\s]*?(\d{3,4}[A-Z]?L?|[A-Z]{2,6}) with flag i, against one course token
TextCourse(tok) ==
    LET Groups(u, L, r) ==
            IF L >= 2 /\ L <= 6 /\ IsCourseNum(r)
            THEN [ok |-> TRUE, dept |-> Take(u, L), num |-> r]
            ELSE IF /\ L >= 2 /\ L <= 6 /\ Len(u) > Len(r) + L
                    /\ UpperRun(r) = Len(r) /\ Len(r) >= 2 /\ Len(r) <= 6
            THEN [ok |-> TRUE, dept |-> Take(u, L), num |-> r]
            ELSE NoCourse
        Dept(u, L) == Groups(u, L, Drop(u, L + SepRun(Drop(u, L))))
        Exec(u) == Dept(u, UpperRun(u))
    IN  Exec(ToUpper(tok))

\* ([+\-]?\s*[A-F]\s*[+\-]?|CR|P|IP)\b with flag i, against a grade token that is
\* followed by white space or the end of the text; "" when nothing matches.
\* A trailing sign is kept only when a word character follows it: \b does not
\* hold between a sign and white space, so the match backs off to the letter.
TextGradeCapture(tok) ==
    LET Letters == {"A", "B", "C", "D", "E", "F"}
        Capture(p, c, tl, sp, u) ==
            IF c \in Letters /\ Ch(tl, sp + 1) \in {"+", "-"} /\ IsWord(Ch(tl, sp + 2))
            THEN Take(tok, p + sp + 1)
            ELSE IF c \in Letters /\ sp > 0 /\ IsWord(Ch(tl, sp + 1))
            THEN Take(tok, p + sp)
            ELSE IF c \in Letters /\ ~IsWord(Ch(tl, 1))
            THEN Take(tok, p)
            ELSE IF Take(u, 2) = "CR" /\ ~IsWord(Ch(u, 3)) THEN "CR"
            ELSE IF Take(u, 1) = "P" /\ ~IsWord(Ch(u, 2)) THEN "P"
            ELSE IF Take(u, 2) = "IP" /\ ~IsWord(Ch(u, 3)) THEN "IP"
            ELSE ""
        Letter(p) == Capture(p, ToUpperCh(Ch(tok, p)), Drop(tok, p), SpaceRun(Drop(tok, p)),
                             ToUpper(tok))
        Sign(lead) == Letter(lead + SpaceRun(Drop(tok, lead)) + 1)
    IN  Sign(IF Ch(tok, 1) \in {"+", "-"} THEN 1 ELSE 0)

\* if (/^\+[A-F]$/.test(grade)) grade = grade.slice(1) + "+"
PlusFirstToLast(grade) ==
    IF Len(grade) = 2 /\ Ch(grade, 1) = "+" /\ Ch(grade, 2) \in {"A", "B", "C", "D", "E", "F"}
    THEN Ch(grade, 2) \o "+"
    ELSE grade

RECURSIVE parseTdaCourseRows(_)
parseTdaCourseRows(lines) ==
    LET Row(ln, cm, g) ==
            IF cm.ok /\ g # ""
            THEN << [term  |-> ln.term,
                     code  |-> normCode(cm.dept \o " " \o cm.num),
                     units |-> ln.units,
                     grade |-> PlusFirstToLast(StripSpaces(ToUpper(g)))] >>
            ELSE <<>>
        Match(ln) == Row(ln, TextCourse(ln.course), TextGradeCapture(ln.grade))
    IN  IF lines = <<>> THEN <<>>
        ELSE Match(Head(lines)) \o parseTdaCourseRows(Tail(lines))

\* /\*([^*]*?)\s+SUBS\s+([A-Z]{2,6})\s?(\d{3}[A-Z]?L?)\*/gi over the hints of the
\* text: a later hint for the same target replaces an earlier one
RECURSIVE parseTdaSubstitutionMap(_)
parseTdaSubstitutionMap(hints) ==
    LET Put(rest, tgt, label) ==
            IF label # "" THEN (tgt :> label) @@ rest ELSE rest
        Hint(h) == Put(parseTdaSubstitutionMap(SubSeq(hints, 1, Len(hints) - 1)),
                       normCode(h.dept \o " " \o h.num), Trim(h.label))
    IN  IF hints = <<>> THEN <<>> ELSE Hint(hints[Len(hints)])

RowCodes(rows, Keep(_)) == { rows[i].code : i \in { j \in 1..Len(rows) : Keep(rows[j].grade) } }

\* the places of the text where a label may be read: the mentions outside the
\* hints, and the label of each hint itself, which follows the opening '*'
LabelPlaces(txt) ==
    txt.mentions
        \cup { [before |-> "*", text |-> txt.hints[i].label \o " SUBS"] : i \in 1..Len(txt.hints) }

\* new RegExp(`:\\s*${escapeRegExp(fromLabel)}\\b`, "i").test(txt)
usedRx(fromLabel, txt) ==
    \E m \in LabelPlaces(txt) :
        /\ EndsWith(TrimRight(m.before), ":")
        /\ ToUpper(Take(m.text, Len(fromLabel))) = ToUpper(fromLabel)
        /\ IsWord(Ch(m.text, Len(fromLabel))) # IsWord(Ch(m.text, Len(fromLabel) + 1))

\* the substitution overlay without the test for a second mention of the label
parseTdaPassedCodes_TrustHints(txt) ==
    LET Pass(g) == g # "IP" /\ (g = "CR" \/ g = "P" \/ isPassingGrade(g))
    IN  RowCodes(parseTdaCourseRows(txt.lines), Pass)
            \cup DOMAIN parseTdaSubstitutionMap(txt.hints)

parseTdaPassedCodes(txt) ==
    LET Pass(g) == g # "IP" /\ (g = "CR" \/ g = "P" \/ isPassingGrade(g))
        Used(subs) == { t \in DOMAIN subs : usedRx(subs[t], txt) }
    IN  RowCodes(parseTdaCourseRows(txt.lines), Pass)
            \cup Used(parseTdaSubstitutionMap(txt.hints))

parseTdaIpCodes(txt) ==
    LET IsIp(g) == g = "IP"
    IN  RowCodes(parseTdaCourseRows(txt.lines), IsIp)

-----------------------------------------------------------------------------
(* tda/evidence.js: evidence sets of the free-text path *)

\* /^[A-D](\+|-)?$/.test(grade)
IsLetterAtoD(g) ==
    /\ Len(g) \in {1, 2}
    /\ Ch(g, 1) \in {"A", "B", "C", "D"}
    /\ Len(g) = 2 => Ch(g, 2) \in {"+", "-"}

parseTdaEvidence(txt) ==
    LET IsIp(g) == g = "IP"
        Pass(g) == g # "IP" /\ (g = "CR" \/ g = "P" \/ IsLetterAtoD(g))
        Evidence(rows) ==
            [rows   |-> rows,
             passed |-> RowCodes(rows, Pass),
             ip     |-> RowCodes(rows, IsIp),
             subs   |-> parseTdaSubstitutionMap(txt.hints)]
    IN  Evidence(parseTdaCourseRows(txt.lines))

-----------------------------------------------------------------------------
(* tda/courseRows.js, 122-250 (imported as tda/htmlEvidence): transcript rows
   of an HTML audit.  The document tree is
   the sequence of its <table> elements in document order; a table records
   whether it carries class completedCourses, the table whose cell encloses it
   (0 for none) and its own rows; a row is its cell texts and whether the <tr>
   carries class ip / inprog.                                                 *)

\* s.replace(/\s+/g, " ").trim()
RECURSIVE CollapseSpaces(_)
CollapseSpaces(s) ==
    IF s = "" THEN ""
    ELSE IF IsSpace(Ch(s, 1)) THEN " " \o CollapseSpaces(Drop(s, SpaceRun(s)))
    ELSE Ch(s, 1) \o CollapseSpaces(Drop(s, 1))

cleanCellText(s) == Trim(CollapseSpaces(s))

\* TERM_RX = /^(FA|SP|SS|WI)\d{2}$/i
TERM_RX(s) ==
    /\ Len(s) = 4
    /\ ToUpper(Take(s, 2)) \in {"FA", "SP", "SS", "WI"}
    /\ IsDigit(Ch(s, 3)) /\ IsDigit(Ch(s, 4))

\* COURSE_RX = /^([A-Z]{2,6})\s*(\d{3,4}[A-Z]?L?)$/i
COURSE_RX(s) ==
    LET Groups(L, k) ==
            IF L >= 2 /\ L <= 6 /\ IsCourseNum(ToUpper(Drop(s, L + k)))
            THEN [ok |-> TRUE, dept |-> Take(s, L), num |-> Drop(s, L + k)]
            ELSE NoCourse
        Dept(L) == Groups(L, SpaceRun(Drop(s, L)))
    IN  Dept(UpperRun(ToUpper(s)))

\* the effective grade with the grade cell read first: status cell and row
\* class count only for a row without grade
RowGrade_GradeCellFirst(cells, ipClass) ==
    LET gradeCell  == StripSpaces(ToUpper(cells[4]))
        statusCell == IF Len(cells) >= 5 THEN StripSpaces(ToUpper(cells[5])) ELSE ""
    IN  PlusFirstToLast(IF gradeCell = "" /\ (statusCell = "IP" \/ ipClass) THEN "IP"
                        ELSE gradeCell)

\* the effective grade of one <tr>: status cell / row class force IP
RowGrade(cells, ipClass) ==
    LET gradeCell  == StripSpaces(ToUpper(cells[4]))
        statusCell == IF Len(cells) >= 5 THEN StripSpaces(ToUpper(cells[5])) ELSE ""
    IN  PlusFirstToLast(IF statusCell = "IP" \/ ipClass THEN "IP" ELSE gradeCell)

\* Array.from(tr.children).filter(TD or TH).map((c) => cleanCellText(c.textContent))
RECURSIVE CleanCells(_)
CleanCells(cells) ==
    IF cells = <<>> THEN <<>> ELSE <<cleanCellText(Head(cells))>> \o CleanCells(Tail(cells))

\* the body of the loop over the <tr> of one table: zero or one TranscriptRow
HtmlRow(tr) ==
    LET Row(cells, cm) ==
            IF ~cm.ok THEN <<>>
            ELSE << [term  |-> cells[1],
                     code  |-> normCode(cm.dept \o " " \o cm.num),
                     units |-> cells[3],
                     grade |-> RowGrade(cells, tr.ipClass)] >>
        Cells(cells) ==
            IF Len(cells) < 4 THEN <<>>
            ELSE IF ~TERM_RX(cells[1]) THEN <<>>
            ELSE Row(cells, COURSE_RX(cells[2]))
    IN  Cells(CleanCells(tr.cells))

RECURSIVE HtmlRows(_)
HtmlRows(trs) == IF trs = <<>> THEN <<>> ELSE HtmlRow(Head(trs)) \o HtmlRows(Tail(trs))

\* t.parentElement?.closest("table.completedCourses")
RECURSIVE HasCompletedAncestor(_, _)
HasCompletedAncestor(tables, i) ==
    LET p == tables[i].parent
    IN  p # 0 /\ (tables[p].cls \/ HasCompletedAncestor(tables, p))

\* the tables whose rows are scanned
ScannedTables(tables) ==
    IF \E i \in 1..Len(tables) : tables[i].cls
    THEN { i \in 1..Len(tables) : tables[i].cls /\ ~HasCompletedAncestor(tables, i) }
    ELSE 1..Len(tables)

RECURSIVE RowsFrom(_, _, _)
RowsFrom(tables, scanned, i) ==
    IF i > Len(tables) THEN <<>>
    ELSE (IF i \in scanned THEN HtmlRows(tables[i].rows) ELSE <<>>)
         \o RowsFrom(tables, scanned, i + 1)

parseTdaCourseRowsFromHtml(tables) == RowsFrom(tables, ScannedTables(tables), 1)

-----------------------------------------------------------------------------
(* tda/geParser.js.  A slice of the audit text is recorded by what the parser
   looks for in it: whether the slot header was found at all, the phrases
   "MET with a CSU cert...", "waived", "Requirement Unfulfilled" / "Requirement
   Fulfilled" within its first 600 characters, an area-tag certification
   mention (outside *...* notes), and its transcript lines (a line inside a
   *...* note or after TAKE ==> is seen by the raw row parser only).  A record {code, status, note} uses "" for
   null / undefined.                                                         *)

NoRec == [code |-> "", status |-> "", note |-> ""]

\* Object.values(schema.headers): the header patterns of a schema by key, the
\* boundary-only ones included
HeaderKeys(isModern) ==
    IF isModern
    THEN <<"1C", "3A", "3B", "4B", "6", "3U", "Z",
           "_5A", "_5B", "_5C", "_2U5U", "_4A", "_4U", "_UDGE">>
    ELSE <<"A.1", "C.1", "C.2", "C.3", "D.2", "F", "Z", "_D.1", "_UDGE">>

\* hdrList.filter((r) => r !== schema.headers[k])
RECURSIVE OtherHeaders(_, _)
OtherHeaders(hdrList, k) ==
    IF hdrList = <<>> THEN <<>>
    ELSE (IF Head(hdrList) = k THEN <<>> ELSE <<Head(hdrList)>>) \o OtherHeaders(Tail(hdrList), k)

\* the search of a pattern before the slicer looked behind the slot header:
\* rx.exec(allText), the first occurrence anywhere
nextIndexAfter_Anywhere(allText, rx, fromIdx) ==
    IF \E i \in 1..Len(allText) : allText[i] = rx
    THEN CHOOSE i \in 1..Len(allText) :
            allText[i] = rx /\ \A j \in 1..(i - 1) : allText[j] # rx
    ELSE 0

\* The text is a sequence of places; a place holds the key of the header
\* pattern that matches there, or other text.  rg.lastIndex = fromIdx;
\* rg.exec(allText): the first place from fromIdx on where rx matches, 0 for null
nextIndexAfter(allText, rx, fromIdx) ==
    IF \E i \in fromIdx..Len(allText) : allText[i] = rx
    THEN CHOOSE i \in fromIdx..Len(allText) :
            allText[i] = rx /\ \A j \in fromIdx..(i - 1) : allText[j] # rx
    ELSE 0

\* geParser.js 56-84; places are counted from 1, so allText.length is Len + 1
sliceByHeader(allText, headerRx, followingHeaders) ==
    LET start == nextIndexAfter(allText, headerRx, 1)
        RECURSIVE End(_, _)
        End(hs, end) ==
            IF hs = <<>> THEN end
            ELSE LET idx == nextIndexAfter(allText, Head(hs), start + 1)
                 IN  End(Tail(hs), IF idx # 0 /\ idx > start /\ idx < end THEN idx ELSE end)
    IN  IF start = 0 THEN <<>>
        ELSE SubSeq(allText, start, End(followingHeaders, Len(allText) + 1) - 1)

fmtSide(label, rec) ==
    IF rec.code # "" THEN label \o "=" \o rec.code ELSE label \o "=Needed"

normCourse(c) == ToUpper(Trim(CollapseSpaces(c)))

isMeaningfulStatus(st) == st = "complete" \/ st = "IP"

RECURSIVE VisibleLines(_)
VisibleLines(lines) ==
    IF lines = <<>> THEN <<>>
    ELSE (IF Head(lines).inNote THEN <<>> ELSE <<Head(lines)>>) \o VisibleLines(Tail(lines))

\* the record of the first transcript row of a section
FirstRowRec(rows, other) ==
    IF rows[1].grade = "IP" THEN [code |-> rows[1].code, status |-> "IP", note |-> ""]
    ELSE IF rows[1].grade = "CR" \/ rows[1].grade = "P" \/ isPassingGrade(rows[1].grade)
    THEN [code |-> rows[1].code, status |-> "complete", note |-> ""]
    ELSE other

pickCourseStatus(sec) ==
    LET isUnfulfilled == sec.unfulfilled /\ ~sec.fulfilled
        Pick(rows) ==
            IF ~sec.present THEN NoRec
            ELSE IF sec.met THEN [code |-> "", status |-> "complete", note |-> "CSU Cert. Course"]
            ELSE IF rows = <<>>
                 THEN IF sec.cert # ""
                      THEN [code |-> "", status |-> "complete", note |-> sec.cert \o " CSU CERT"]
                      ELSE IF sec.waived
                      THEN [code |-> "", status |-> "complete", note |-> "Waived"]
                      ELSE IF isUnfulfilled THEN NoRec
                      ELSE NoRec
            ELSE FirstRowRec(rows, IF isUnfulfilled
                                   THEN [code |-> rows[1].code, status |-> "", note |-> ""]
                                   ELSE [code |-> rows[1].code, status |-> "", note |-> ""])
    IN  Pick(parseTdaCourseRows(VisibleLines(sec.lines)))

\* a || b on strings / null
Or2(a, b) == IF a # "" THEN a ELSE b

\* the merge before differing codes were flagged: one side in play only
Merge3UZ_UnilateralOnly(u, z) ==
    LET hasU       == isMeaningfulStatus(u.status)
        hasZ       == isMeaningfulStatus(z.status)
        unilateral == (hasU /\ ~hasZ) \/ (~hasU /\ hasZ)
        code       == Or2(IF u.status # "" THEN u.code ELSE "",
                          IF z.status # "" THEN z.code ELSE "")
        status     == IF u.status = "IP" \/ z.status = "IP" THEN "IP"
                      ELSE Or2(u.status, z.status)
        note       == Or2(u.note, z.note)
    IN  IF unilateral
        THEN [code   |-> Or2(code, Or2(u.code, z.code)),
              status |-> "tentative",
              note   |-> fmtSide("3U", u) \o "; " \o fmtSide("Z", z)]
        ELSE [code |-> code, status |-> status, note |-> note]

\* the merge flagging differing codes only: a single side in play is not flagged
Merge3UZ_MismatchOnly(u, z) ==
    LET hasU     == isMeaningfulStatus(u.status)
        hasZ     == isMeaningfulStatus(z.status)
        mismatch == /\ hasU /\ hasZ /\ u.code # "" /\ z.code # ""
                    /\ normCourse(u.code) # normCourse(z.code)
        code     == Or2(IF u.status # "" THEN u.code ELSE "",
                        IF z.status # "" THEN z.code ELSE "")
        status   == IF u.status = "IP" \/ z.status = "IP" THEN "IP"
                    ELSE Or2(u.status, z.status)
        note     == Or2(u.note, z.note)
    IN  IF mismatch
        THEN [code   |-> Or2(code, Or2(u.code, z.code)),
              status |-> "tentative",
              note   |-> fmtSide("3U", u) \o "; " \o fmtSide("Z", z)]
        ELSE [code |-> code, status |-> status, note |-> note]

\* the merge flagging every pair of sides in play, equal codes included
Merge3UZ_BothFlagged(u, z) ==
    LET hasU       == isMeaningfulStatus(u.status)
        hasZ       == isMeaningfulStatus(z.status)
        unilateral == (hasU /\ ~hasZ) \/ (~hasU /\ hasZ)
        code       == Or2(IF u.status # "" THEN u.code ELSE "",
                          IF z.status # "" THEN z.code ELSE "")
        status     == IF u.status = "IP" \/ z.status = "IP" THEN "IP"
                      ELSE Or2(u.status, z.status)
        note       == Or2(u.note, z.note)
    IN  IF (hasU /\ hasZ) \/ unilateral
        THEN [code   |-> Or2(code, Or2(u.code, z.code)),
              status |-> "tentative",
              note   |-> fmtSide("3U", u) \o "; " \o fmtSide("Z", z)]
        ELSE [code |-> code, status |-> status, note |-> note]

\* geParser.js 217-249: the 3U/Z record of the modern schema
Merge3UZ(u, z) ==
    LET hasU       == isMeaningfulStatus(u.status)
        hasZ       == isMeaningfulStatus(z.status)
        mismatch   == /\ hasU /\ hasZ /\ u.code # "" /\ z.code # ""
                      /\ normCourse(u.code) # normCourse(z.code)
        unilateral == (hasU /\ ~hasZ) \/ (~hasU /\ hasZ)
        code       == Or2(IF u.status # "" THEN u.code ELSE "",
                          IF z.status # "" THEN z.code ELSE "")
        status     == IF u.status = "IP" \/ z.status = "IP" THEN "IP"
                      ELSE Or2(u.status, z.status)
        note       == Or2(u.note, z.note)
    IN  IF mismatch \/ unilateral
        THEN [code   |-> Or2(code, Or2(u.code, z.code)),
              status |-> "tentative",
              note   |-> fmtSide("3U", u) \o "; " \o fmtSide("Z", z)]
        ELSE [code |-> code, status |-> status, note |-> note]

\* geParser.js 285-324: the C.3/Z record of the legacy schema
MergeC3Z(c3, z) ==
    LET hasC3      == isMeaningfulStatus(c3.status)
        hasZ       == isMeaningfulStatus(z.status)
        mismatch   == /\ hasC3 /\ hasZ /\ c3.code # "" /\ z.code # ""
                      /\ normCourse(c3.code) # normCourse(z.code)
        unilateral == (hasC3 /\ ~hasZ) \/ (~hasC3 /\ hasZ)
        code       == Or2(IF z.status # "" THEN z.code ELSE "",
                          IF c3.status # "" THEN c3.code ELSE "")
        status     == IF c3.status = "IP" \/ z.status = "IP" THEN "IP"
                      ELSE Or2(c3.status, z.status)
        note       == Or2(c3.note, z.note)
    IN  IF mismatch \/ unilateral
        THEN [code   |-> Or2(code, Or2(c3.code, z.code)),
              status |-> "tentative",
              note   |-> fmtSide("C.3", c3) \o "; " \o fmtSide("Z", z)]
        ELSE [code |-> code, status |-> status, note |-> note]

ModernSlots == <<"1C", "3A", "3B", "4B", "6">>

LegacySlots == <<"A.1", "C.1", "C.2", "D.2", "F">>

\* geParser.js 255-272: Area 6 re-read from the raw slice when still without status
Area6Fallback(rec, sec) ==
    LET Fallback(rows6) ==
            IF rec.status # "" \/ rows6 = <<>> THEN rec ELSE FirstRowRec(rows6, rec)
    IN  Fallback(IF sec.present THEN parseTdaCourseRows(sec.lines) ELSE <<>>)

\* results[key] = pickCourseStatus(slice) for every header of the schema
RECURSIVE PickAll(_, _)
PickAll(slices, headers) ==
    IF headers = <<>> THEN <<>>
    ELSE (Head(headers) :> pickCourseStatus(slices[Head(headers)]))
         @@ PickAll(slices, Tail(headers))

\* geText = [isModern, slices]: slices maps a header key to the slice cut at it
parseGeFromTda(geText) ==
    LET Modern(res) ==
            ("1C" :> res["1C"]) @@ ("3A" :> res["3A"]) @@ ("3B" :> res["3B"])
            @@ ("4B" :> res["4B"]) @@ ("6" :> Area6Fallback(res["6"], geText.slices["6"]))
            @@ ("3U/Z" :> Merge3UZ(res["3U"], res["Z"]))
        Legacy(res) ==
            ("A.1" :> res["A.1"]) @@ ("C.1" :> res["C.1"]) @@ ("C.2" :> res["C.2"])
            @@ ("D.2" :> res["D.2"]) @@ ("F" :> res["F"])
            @@ ("C.3/Z" :> MergeC3Z(res["C.3"], res["Z"]))
    IN  IF geText.isModern
        THEN [isModern |-> TRUE,
              items |-> Modern(PickAll(geText.slices, ModernSlots \o <<"3U", "Z">>))]
        ELSE [isModern |-> FALSE,
              items |-> Legacy(PickAll(geText.slices, LegacySlots \o <<"C.3", "Z">>))]

-----------------------------------------------------------------------------
(* tda/techElectives.js.  The TECHNICAL ELECTIVES section is the sequence of
   its course-code occurrences, each with the text that follows the code up
   to the next occurrence and what that text holds (an IP token, a units
   number, the first grade token).  The window of an occurrence is
   secText.slice(m.index, end): it starts with the code itself.  A JavaScript
   Set iterates in insertion order: it is a sequence without repetitions.     *)

SetAdd(seq, x) == IF \E i \in 1..Len(seq) : seq[i] = x THEN seq ELSE Append(seq, x)

\* gradeTok === "CR" || /^(A|B|C)(\+|-)?$/.test(gradeTok)
TechPass(gradeTok) ==
    LET g == StripSpaces(ToUpper(gradeTok))
    IN  g \in {"CR", "A", "B", "C", "A+", "B+", "C+", "A-", "B-", "C-"}

\* secText.slice(start, end) with start = m.index
WinText(w) == w.dept \o w.glue \o w.num \o w.after

\* /^\s*[-=]/.test(win)
BeginsWithMarker(win) == Ch(win, SpaceRun(win) + 1) \in {"-", "="}

RECURSIVE parseTechElectives(_)
parseTechElectives(wins) ==
    LET Add(acc, w, code) ==
            IF BeginsWithMarker(WinText(w)) THEN acc
            ELSE IF w.hasIP THEN [acc EXCEPT !.ip = SetAdd(@, code)]
            ELSE IF w.hasUnits /\ TechPass(w.gradeTok)
                 THEN [acc EXCEPT !.completed = SetAdd(@, code)]
            ELSE acc
        Window(w) == Add(parseTechElectives(SubSeq(wins, 1, Len(wins) - 1)), w,
                         normCode(w.dept \o " " \o w.num))
    IN  IF wins = <<>> THEN [completed |-> <<>>, ip |-> <<>>] ELSE Window(wins[Len(wins)])

-----------------------------------------------------------------------------
(* tda/courseRows.js, 259-493: parseTdaEvidenceFromHtml.  Beside its tables an HTML
   document carries the substitution hints and GE / technical-elective text of
   its visible text and the two requirement panels the overlays inspect: a
   panel records whether it exists, whether it shows a completion signal, the
   rows of its local completedCourses tables and its certification marks.     *)

Passing(g) == g = "CR" \/ g = "P" \/ isPassingGrade(g)

\* courseRows.js 317-361: the first local row that is IP or passing
RECURSIVE Ge6FirstRow(_)
Ge6FirstRow(trs) ==
    LET First(r) ==
            IF r # <<>> /\ r[1].grade = "IP"
            THEN [code |-> r[1].code, status |-> "IP", note |-> ""]
            ELSE IF r # <<>> /\ Passing(r[1].grade)
            THEN [code |-> r[1].code, status |-> "complete", note |-> ""]
            ELSE Ge6FirstRow(Tail(trs))
    IN  IF trs = <<>> THEN NoRec ELSE First(HtmlRow(Head(trs)))

\* courseRows.js 300-404, the body of the try block: the items it leaves and
\* whether it throws.  The course-cell search (386-396) runs only when the
\* certification is neither in the text nor in the attributes; it calls
\* querySelectorAll(":scope > tbody > tr") on each local table, which throws
\* on a DOM without :scope support.  No write precedes that call.
Ge6Try(items, req6, scopeOk) ==
    LET Cert == ("6" :> [code |-> "", status |-> "complete", note |-> "F CSU CERT"]) @@ items
        Overlay(hit) ==
            IF hit # NoRec THEN [thrown |-> FALSE, items |-> ("6" :> hit) @@ items]
            ELSE IF req6.certText \/ req6.certAttr THEN [thrown |-> FALSE, items |-> Cert]
            ELSE IF req6.hasTable /\ ~scopeOk THEN [thrown |-> TRUE, items |-> items]
            ELSE IF req6.hasTable /\ req6.certCell THEN [thrown |-> FALSE, items |-> Cert]
            ELSE [thrown |-> FALSE, items |-> items]
    IN  IF ~req6.present \/ ~req6.complete THEN [thrown |-> FALSE, items |-> items]
        ELSE Overlay(Ge6FirstRow(req6.rows))

\* courseRows.js 300-407: try { ... } catch { }
Ge6Overlay(items, req6, scopeOk) == Ge6Try(items, req6, scopeOk).items

\* courseRows.js 445-466: the POSC 100 rows of the GRADGOV panel, as grades
RECURSIVE GradGovGrades(_)
GradGovGrades(trs) ==
    LET Grade(cells, cm, ipClass) ==
            IF cm.ok /\ normCode(cm.dept \o " " \o cm.num) = "POSC 100"
            THEN << RowGrade(cells, ipClass) >>
            ELSE <<>>
        Cells(cells, ipClass) ==
            IF Len(cells) >= 4 THEN Grade(cells, COURSE_RX(cells[2]), ipClass) ELSE <<>>
    IN  IF trs = <<>> THEN <<>>
        ELSE Cells(CleanCells(Head(trs).cells), Head(trs).ipClass) \o GradGovGrades(Tail(trs))

\* courseRows.js 428-481: what the GRADGOV panel adds to passed and to ip
GradGovOverlay(gg) ==
    LET Add(gs) ==
            [passed |-> IF (\E i \in 1..Len(gs) : gs[i] # "IP" /\ Passing(gs[i]))
                           \/ (gg.present /\ gg.complete /\ gs = <<>> /\ gg.cert)
                        THEN {"POSC 100"} ELSE {},
             ip     |-> IF \E i \in 1..Len(gs) : gs[i] = "IP" THEN {"POSC 100"} ELSE {}]
    IN  Add(IF gg.present /\ gg.complete THEN GradGovGrades(gg.rows) ELSE <<>>)

\* parseTdaEvidenceFromHtml with the Area 6 block outside any try: its
\* exception leaves the function
parseTdaEvidenceFromHtml_NoCatch(doc) ==
    LET IsIp(g) == g = "IP"
        Pass(g) == g # "IP" /\ Passing(g)
        Evidence(rows, ge, gg) ==
            [rows   |-> rows,
             passed |-> RowCodes(rows, Pass) \cup gg.passed,
             ip     |-> RowCodes(rows, IsIp) \cup gg.ip,
             subs   |-> parseTdaSubstitutionMap(doc.hints),
             ge     |-> [isModern |-> ge.isModern,
                         items |-> Ge6Try(ge.items, doc.req6, doc.scopeOk).items],
             tech   |-> parseTechElectives(doc.techWins),
             overlayThrew |-> Ge6Try(ge.items, doc.req6, doc.scopeOk).thrown,
             thrown |-> Ge6Try(ge.items, doc.req6, doc.scopeOk).thrown]
    IN  Evidence(parseTdaCourseRowsFromHtml(doc.tables), parseGeFromTda(doc.geText),
                 GradGovOverlay(doc.gradGov))

\* overlayThrew: the Area 6 block raised an exception; thrown: an exception
\* left the function (both try blocks swallow theirs, and no operation of the
\* GRADGOV block throws on a parsed document)
parseTdaEvidenceFromHtml(doc) ==
    LET IsIp(g) == g = "IP"
        Pass(g) == g # "IP" /\ Passing(g)
        Evidence(rows, ge, gg) ==
            [rows   |-> rows,
             passed |-> RowCodes(rows, Pass) \cup gg.passed,
             ip     |-> RowCodes(rows, IsIp) \cup gg.ip,
             subs   |-> parseTdaSubstitutionMap(doc.hints),
             ge     |-> [isModern |-> ge.isModern,
                         items |-> Ge6Overlay(ge.items, doc.req6, doc.scopeOk)],
             tech   |-> parseTechElectives(doc.techWins),
             overlayThrew |-> Ge6Try(ge.items, doc.req6, doc.scopeOk).thrown,
             thrown |-> FALSE]
    IN  Evidence(parseTdaCourseRowsFromHtml(doc.tables), parseGeFromTda(doc.geText),
                 GradGovOverlay(doc.gradGov))

-----------------------------------------------------------------------------
(* ProgramMap.jsx: the flowchart (coursesProp) and the import computation.
   nextLabels / nextNotes are functions on the node ids; "" is "no entry".    *)

Chart ==
    << [id |-> "CPSC120",  code |-> "CPSC 120",      label |-> "", category |-> "CS"],
       [id |-> "CPSC120A", code |-> "CPSC 120A",     label |-> "", category |-> "CS"],
       [id |-> "CPSC131",  code |-> "CPSC 131",      label |-> "", category |-> "CS"],
       [id |-> "EGEC180",  code |-> "EGEC 180",      label |-> "", category |-> "ECE"],
       [id |-> "TE1",      code |-> "Tech Elective", label |-> "", category |-> "Tech Elective"],
       [id |-> "TE450",    code |-> "EGEC 450",      label |-> "", category |-> "Tech Elective"],
       [id |-> "TE2",      code |-> "Tech Elective", label |-> "", category |-> "Tech Elective"],
       [id |-> "ENGL101",  code |-> "ENGL 101",      label |-> "", category |-> "GE"],
       [id |-> "HIST110A", code |-> "HIST 110A",     label |-> "", category |-> "GE"],
       [id |-> "POSC100",  code |-> "POSC 100",      label |-> "GE 4B", category |-> "GE"],
       [id |-> "GE1",      code |-> "GE",            label |-> "", category |-> "GE"],
       [id |-> "GE6",      code |-> "GE Area 6",     label |-> "", category |-> "GE"],
       [id |-> "GE2",      code |-> "GE",            label |-> "", category |-> "GE"] >>

NodeIds == { Chart[i].id : i \in 1..Len(Chart) }

NoEntries == [id \in NodeIds |-> ""]

STRIKE == "__strike__"

ALLOW_GE == {"ENGL 101", "POSC 100"}

\* normCode(c.code || c.id)
FlowCode(c) == normCode(IF c.code # "" THEN c.code ELSE c.id)

\* a filter that looks at the whitelist only to admit, never at the category
isEligibleFlowCourse_AnyCategory(c) ==
    \/ FlowCode(c) \in ALLOW_GE
    \/ c.category # ""

isEligibleFlowCourse(c) ==
    \/ FlowCode(c) \in ALLOW_GE
    \/ (c.category # "GE" /\ c.category # "Tech Elective")

\* s.includes(sub)
Contains(s, sub) ==
    \E i \in 0..(Len(s) - Len(sub)) : SubSeq(s, i + 1, i + Len(sub)) = sub

\* (s || "").replace(/[\s-]+/g, "").toUpperCase()
RECURSIVE StripSeps(_)
StripSeps(s) ==
    IF s = "" THEN ""
    ELSE IF IsSep(Ch(s, 1)) THEN StripSeps(Drop(s, 1))
    ELSE Ch(s, 1) \o StripSeps(Drop(s, 1))

normLoose(s) == ToUpper(StripSeps(s))

\* n.code || n.title || ...: every node of the chart has a code
nodeLabel(n) == n.code

isExcludedFixedGeNode(n) ==
    LET lbl == normLoose(nodeLabel(n))
    IN  Contains(lbl, "ENGL101") \/ Contains(lbl, "POSC100")

\* /\bGE\b/i.test(lbl)
HasWordGE(lbl) ==
    LET u == ToUpper(lbl)
    IN  \E i \in 1..Len(u) :
            /\ SubSeq(u, i, i) = "G" /\ Ch(u, i + 1) = "E"
            /\ ~IsWord(Ch(u, i - 1)) /\ ~IsWord(Ch(u, i + 2))

\* /General\s*Ed/i.test(lbl)
HasGeneralEd(lbl) ==
    LET u == ToUpper(lbl)
    IN  \E i \in 0..Len(u) :
            /\ Take(Drop(u, i), 7) = "GENERAL"
            /\ LET r == Drop(u, i + 7) IN Take(Drop(r, SpaceRun(r)), 2) = "ED"

isGenericGeNode(n) ==
    /\ ~isExcludedFixedGeNode(n)
    /\ (HasWordGE(nodeLabel(n)) \/ HasGeneralEd(nodeLabel(n)))

\* cat inside the RegExp source: "/" is escaped, "." is left a wildcard; flag i
RECURSIVE CatMatches(_, _)
CatMatches(r, cat) ==
    IF cat = "" THEN TRUE
    ELSE /\ r # ""
         /\ (Ch(cat, 1) = "." /\ Ch(r, 1) # "\n") \/ ToUpperCh(Ch(r, 1)) = ToUpperCh(Ch(cat, 1))
         /\ CatMatches(Drop(r, 1), Drop(cat, 1))

\* new RegExp(`\\bGE\\b[^\\w]?\\s*(?:AREA\\s*)?${cat}(?:\\b|\\s)`, "i").test(lbl)
GeLabelNames(lbl, cat) ==
    LET u == ToUpper(lbl)
    IN  \E i \in 1..Len(u) :
            /\ SubSeq(u, i, i) = "G" /\ Ch(u, i + 1) = "E"
            /\ ~IsWord(Ch(u, i - 1)) /\ ~IsWord(Ch(u, i + 2))
            /\ LET r0 == Drop(u, i + 1)
               IN  \E skip \in {0, 1} :
                     /\ skip = 1 => (r0 # "" /\ ~IsWord(Ch(r0, 1)))
                     /\ LET r1 == Drop(r0, skip)
                            r2 == Drop(r1, SpaceRun(r1))
                        IN  \E area \in BOOLEAN :
                              /\ area => Take(r2, 4) = "AREA"
                              /\ LET r3 == IF area THEN Drop(r2, 4) ELSE r2
                                     r4 == Drop(r3, SpaceRun(r3))
                                     nx == Ch(r4, Len(cat) + 1)
                                     lc == Ch(r4, Len(cat))
                                 IN  /\ CatMatches(r4, cat)
                                     /\ IsSpace(nx) \/ (IsWord(lc) # IsWord(nx))

TargetCats(isModern) ==
    IF isModern THEN <<"1C", "3A", "3B", "4B", "6", "3U/Z">>
    ELSE <<"A.1", "C.1", "C.2", "D.2", "F", "C.3/Z">>

\* the first category of targetCats, from the j-th on, whose pattern the label
\* matches; 0 for none
RECURSIVE LabelCat(_, _, _)
LabelCat(lbl, cats, j) ==
    IF j > Len(cats) THEN 0
    ELSE IF GeLabelNames(lbl, cats[j]) THEN j
    ELSE LabelCat(lbl, cats, j + 1)

\* ProgramMap.jsx 645-660: geLabeledBuckets; String(n.label || n.code || n.id)
RECURSIVE BucketLoop(_, _, _)
BucketLoop(buckets, i, cats) ==
    LET Push(n, j) == IF j = 0 THEN buckets ELSE [buckets EXCEPT ![j] = Append(@, n.id)]
        Find(n) == Push(n, IF n.category = "GE"
                           THEN LabelCat(IF n.label # "" THEN n.label
                                         ELSE IF n.code # "" THEN n.code ELSE n.id, cats, 1)
                           ELSE 0)
    IN  IF i > Len(Chart) THEN buckets ELSE BucketLoop(Find(Chart[i]), i + 1, cats)

geLabeledBuckets(cats) == BucketLoop([j \in 1..Len(cats) |-> <<>>], 1, cats)

\* what the import reads off each node of the chart, computed once: its
\* normalised code, the form the matchers see, its EGEC alternates, and whether
\* it passes isEligibleFlowCourse and geNodes.filter(isGenericGeNode)
RECURSIVE FlowNodes(_)
FlowNodes(i) ==
    LET Info(c, flowCode) ==
            [id |-> c.id, category |-> c.category, flowCode |-> flowCode,
             form |-> EquivForm(flowCode), alts |-> egecAlternates(flowCode),
             eligible |-> isEligibleFlowCourse(c),
             generic |-> c.category = "GE" /\ isGenericGeNode(c)]
    IN  IF i > Len(Chart) THEN <<>>
        ELSE <<Info(Chart[i], FlowCode(Chart[i]))>> \o FlowNodes(i + 1)

coursesProp == FlowNodes(1)

\* the labeled buckets of the two schemas, computed once
Buckets ==
    [modern |-> geLabeledBuckets(TargetCats(TRUE)), legacy |-> geLabeledBuckets(TargetCats(FALSE))]

\* ProgramMap.jsx 591-608: step 3, the in-progress pass
RECURSIVE IpPass(_, _, _)
IpPass(nextLabels, nodes, ip) ==
    LET Course(c) ==
            IF IpMatch(c.form, ip) \/ (\E k \in 1..Len(c.alts) : c.alts[k] \in ip)
            THEN [nextLabels EXCEPT ![c.id] = "In Prog."] ELSE nextLabels
    IN  IF nodes = <<>> THEN nextLabels ELSE IpPass(Course(Head(nodes)), Tail(nodes), ip)

\* a test that does not look at the labels shown when the import was invoked
isUnused_NotShown(id, nextNotes, nextLabels, shown) ==
    nextNotes[id] = "" /\ nextLabels[id] = ""

\* const isUnused = (id) => !nextNotes[id] && !nextLabels[id] && labels[id] !== "__strike__"
isUnused(id, nextNotes, nextLabels, shown) ==
    nextNotes[id] = "" /\ nextLabels[id] = "" /\ shown[id] # STRIKE

\* one of the two loops of step 5: for (const code of codes) { if (teIdx >= unusedIds.length) break; ... }
RECURSIVE TechDrain(_, _, _, _)
TechDrain(acc, codes, unusedIds, lab) ==
    IF codes = <<>> \/ acc.teIdx >= Len(unusedIds) THEN acc
    ELSE TechDrain([acc EXCEPT !.notes[unusedIds[acc.teIdx + 1]] = Head(codes),
                               !.labels[unusedIds[acc.teIdx + 1]] = lab,
                               !.teIdx = @ + 1],
                   Tail(codes), unusedIds, lab)

\* ProgramMap.jsx 610-630: step 5, technical electives
RECURSIVE TechUnusedIds(_, _, _)
TechUnusedIds(acc, shown, nodes) ==
    IF nodes = <<>> THEN <<>>
    ELSE (IF /\ Head(nodes).category = "Tech Elective"
             /\ isUnused(Head(nodes).id, acc.notes, acc.labels, shown)
          THEN <<Head(nodes).id>> ELSE <<>>)
         \o TechUnusedIds(acc, shown, Tail(nodes))

TechStep(acc, tech, unusedIds) ==
    LET Out(a) == [labels |-> a.labels, notes |-> a.notes]
    IN  Out(TechDrain(TechDrain([labels |-> acc.labels, notes |-> acc.notes, teIdx |-> 0],
                                tech.completed, unusedIds, STRIKE),
                      tech.ip, unusedIds, "In Prog."))

\* ProgramMap.jsx 663-665
RECURSIVE openGeIds(_, _)
openGeIds(acc, nodes) ==
    IF nodes = <<>> THEN <<>>
    ELSE (IF /\ Head(nodes).generic
             /\ acc.notes[Head(nodes).id] = "" /\ acc.labels[Head(nodes).id] = ""
          THEN <<Head(nodes).id>> ELSE <<>>)
         \o openGeIds(acc, Tail(nodes))

\* ProgramMap.jsx 667-687: the queue of one status, in targetCats order
RECURSIVE Wants(_, _, _, _)
Wants(items, cats, j, kind) ==
    IF j > Len(cats) THEN <<>>
    ELSE LET cat == cats[j]
             rec == IF cat \in DOMAIN items THEN items[cat] ELSE NoRec
             k   == IF rec.status = "complete" THEN "complete"
                    ELSE IF rec.status = "IP" /\ rec.code # "" THEN "IP"
                    ELSE IF rec.status = "tentative" THEN "tentative"
                    ELSE "missing"
             it  == [cat  |-> cat,
                     code |-> IF k = "missing" THEN ""
                              ELSE IF k = "IP" THEN rec.code
                              ELSE Or2(rec.code, Or2(rec.note, "Completed")),
                     note |-> IF k = "tentative" THEN rec.note ELSE ""]
         IN  (IF k = kind THEN <<it>> ELSE <<>>) \o Wants(items, cats, j + 1, kind)

\* while (bucket.length) { const id = bucket.shift(); if (unused) return id; }
RECURSIVE BucketShift(_, _)
BucketShift(bucket, acc) ==
    IF bucket = <<>> THEN [id |-> "", rest |-> <<>>]
    ELSE IF acc.notes[Head(bucket)] = "" /\ acc.labels[Head(bucket)] = ""
    THEN [id |-> Head(bucket), rest |-> Tail(bucket)]
    ELSE BucketShift(Tail(bucket), acc)

\* consumeGeForCat(cat): the id handed out ("" for undefined) and the queues left
consumeGeForCat(acc, j) ==
    LET Hand(b) ==
            IF b.id # ""
            THEN [id |-> b.id, buckets |-> [acc.buckets EXCEPT ![j] = b.rest], open |-> acc.open]
            ELSE [id      |-> IF acc.open = <<>> THEN "" ELSE Head(acc.open),
                  buckets |-> [acc.buckets EXCEPT ![j] = b.rest],
                  open    |-> IF acc.open = <<>> THEN <<>> ELSE Tail(acc.open)]
    IN  Hand(BucketShift(acc.buckets[j], acc))

\* what one queue writes on the node it was given
GeNote(it, kind) ==
    IF kind = "complete"
    THEN (IF it.code # "" THEN it.code \o " (" \o it.cat \o ")" ELSE it.cat \o " (Waived)")
    ELSE IF kind = "IP" THEN it.code \o " (" \o it.cat \o ")"
    ELSE IF kind = "tentative" THEN it.note
    ELSE it.cat

\* a queue of IP entries that strikes
GeLabel_StrikeIp(kind) ==
    IF kind = "complete" \/ kind = "IP" THEN STRIKE
    ELSE IF kind = "tentative" THEN "Review"
    ELSE ""

GeLabel(kind) ==
    IF kind = "complete" THEN STRIKE
    ELSE IF kind = "IP" THEN "In Prog."
    ELSE IF kind = "tentative" THEN "Review"
    ELSE ""

CatIndex(cats, cat) == CHOOSE j \in 1..Len(cats) : cats[j] = cat

\* a loop that goes on to the next entry when consumeGeForCat hands out nothing
RECURSIVE GeDrain_Continue(_, _, _, _)
GeDrain_Continue(acc, queue, cats, kind) ==
    LET Try(it, c) == [id |-> c.id, cat |-> it.cat, kind |-> kind]
        Write(it, c) ==
            IF c.id = ""
            THEN GeDrain_Continue([acc EXCEPT !.buckets = c.buckets, !.open = c.open,
                                              !.tries = Append(@, Try(it, c))],
                                  Tail(queue), cats, kind)
            ELSE GeDrain_Continue([acc EXCEPT !.buckets = c.buckets, !.open = c.open,
                                              !.tries = Append(@, Try(it, c)),
                                              !.writes = Append(@, Try(it, c)),
                                              !.notes[c.id] = GeNote(it, kind),
                                              !.labels[c.id] = IF kind = "missing" THEN @ ELSE GeLabel(kind)],
                                  Tail(queue), cats, kind)
    IN  IF queue = <<>> THEN acc
        ELSE Write(Head(queue), consumeGeForCat(acc, CatIndex(cats, Head(queue).cat)))

\* ProgramMap.jsx 703-737: for (const it of wants[kind]) { id = consumeGeForCat(it.cat); if (!id) break; ... }
\* tries lists every call of consumeGeForCat with the id it returned ("" for
\* undefined), writes the calls that returned a node
RECURSIVE GeDrain(_, _, _, _)
GeDrain(acc, queue, cats, kind) ==
    LET Try(it, c) == [id |-> c.id, cat |-> it.cat, kind |-> kind]
        Write(it, c) ==
            IF c.id = "" THEN [acc EXCEPT !.buckets = c.buckets, !.open = c.open,
                                          !.tries = Append(@, Try(it, c))]
            ELSE GeDrain([acc EXCEPT !.buckets = c.buckets, !.open = c.open,
                                     !.tries = Append(@, Try(it, c)),
                                     !.writes = Append(@, Try(it, c)),
                                     !.notes[c.id] = GeNote(it, kind),
                                     !.labels[c.id] = IF kind = "missing" THEN @ ELSE GeLabel(kind)],
                         Tail(queue), cats, kind)
    IN  IF queue = <<>> THEN acc
        ELSE Write(Head(queue), consumeGeForCat(acc, CatIndex(cats, Head(queue).cat)))

\* ProgramMap.jsx 632-737: step 6, GE placeholders; writes lists, in order,
\* the node each entry was written on
GeStep(acc, ge, nodes) ==
    LET Out(a) == [labels |-> a.labels, notes |-> a.notes, writes |-> a.writes, tries |-> a.tries,
                   open |-> openGeIds(acc, nodes)]
        Queue(a, cats, kind) == GeDrain(a, Wants(ge.items, cats, 1, kind), cats, kind)
        Fill(cats) ==
            Out(Queue(Queue(Queue(Queue([labels |-> acc.labels, notes |-> acc.notes,
                                         buckets |-> Buckets[IF ge.isModern THEN "modern"
                                                             ELSE "legacy"],
                                         open |-> openGeIds(acc, nodes), writes |-> <<>>,
                                         tries |-> <<>>],
                                        cats, "complete"),
                                  cats, "IP"),
                            cats, "tentative"),
                      cats, "missing"))
    IN  Fill(TargetCats(ge.isModern))

\* ProgramMap.jsx 739-762: step 7, the ids to strike
RECURSIVE toStrikeIds(_, _)
toStrikeIds(nodes, passed) ==
    LET Course(c) ==
            IF /\ c.eligible
               /\ \/ SatisfiedWithEquivs(c.form, passed)
                  \/ c.flowCode \in passed
                  \/ \E k \in 1..Len(c.alts) : c.alts[k] \in passed
            THEN <<c.id>> ELSE <<>>
    IN  IF nodes = <<>> THEN <<>>
        ELSE Course(Head(nodes)) \o toStrikeIds(Tail(nodes), passed)

\* a strike that leaves alone a node that already has a label
RECURSIVE StrikeAll_KeepLabel(_, _)
StrikeAll_KeepLabel(nextLabels, ids) ==
    IF ids = <<>> THEN nextLabels
    ELSE StrikeAll_KeepLabel(IF nextLabels[Head(ids)] = "" THEN [nextLabels EXCEPT ![Head(ids)] = STRIKE]
                             ELSE nextLabels,
                             Tail(ids))

\* for (const id of toStrikeIds) nextLabels[id] = "__strike__"
RECURSIVE StrikeAll(_, _)
StrikeAll(nextLabels, ids) ==
    IF ids = <<>> THEN nextLabels
    ELSE StrikeAll([nextLabels EXCEPT ![Head(ids)] = STRIKE], Tail(ids))

\* a loop that attaches the substitute label whatever note the node carries
RECURSIVE SubsLoop_Overwrite(_, _, _, _)
SubsLoop_Overwrite(nextNotes, nodes, struck, subs) ==
    LET Course(c) ==
            IF /\ c.eligible /\ (\E k \in 1..Len(struck) : struck[k] = c.id)
               /\ c.flowCode \in DOMAIN subs
            THEN [nextNotes EXCEPT ![c.id] = subs[c.flowCode]]
            ELSE nextNotes
    IN  IF nodes = <<>> THEN nextNotes
        ELSE SubsLoop_Overwrite(Course(Head(nodes)), Tail(nodes), struck, subs)

\* ProgramMap.jsx 764-775: step 8, substitution notes on struck nodes
RECURSIVE SubsLoop(_, _, _, _)
SubsLoop(nextNotes, nodes, struck, subs) ==
    LET Course(c) ==
            IF /\ c.eligible /\ (\E k \in 1..Len(struck) : struck[k] = c.id)
               /\ c.flowCode \in DOMAIN subs /\ nextNotes[c.id] = ""
            THEN [nextNotes EXCEPT ![c.id] = subs[c.flowCode]]
            ELSE nextNotes
    IN  IF nodes = <<>> THEN nextNotes
        ELSE SubsLoop(Course(Head(nodes)), Tail(nodes), struck, subs)

StrikeStep(acc, passed, subs, nodes) ==
    LET Strike(struck) ==
            [labels |-> StrikeAll(acc.labels, struck),
             notes  |-> SubsLoop(acc.notes, nodes, struck, subs),
             struck |-> struck]
    IN  Strike(toStrikeIds(nodes, passed))

\* ProgramMap.jsx 580-775: the accumulators after each step; shown is the
\* `labels` state the handler closed over when it was invoked
ImportCompute(ev, shown) ==
    LET Step8(a3, unusedIds, a5, a6, a8) ==
            [shown |-> shown, ge |-> ev.ge, afterIp |-> a3, unusedIds |-> unusedIds, afterTech |-> a5,
             afterGe |-> a6, toStrikeIds |-> a8.struck,
             nextLabels |-> a8.labels, nextNotes |-> a8.notes]
        Step7(nodes, a3, unusedIds, a5, a6) ==
            Step8(a3, unusedIds, a5, a6, StrikeStep(a6, ev.passed, ev.subs, nodes))
        Step6(nodes, a3, unusedIds, a5) == Step7(nodes, a3, unusedIds, a5, GeStep(a5, ev.ge, nodes))
        Step5(nodes, a3, unusedIds) == Step6(nodes, a3, unusedIds, TechStep(a3, ev.tech, unusedIds))
        Step4(nodes, a3) == Step5(nodes, a3, TechUnusedIds(a3, shown, nodes))
        Step3(nodes) == Step4(nodes, [labels |-> IpPass(NoEntries, nodes, ev.ip), notes |-> NoEntries])
    IN  Step3(coursesProp)

-----------------------------------------------------------------------------
(* The audit documents the model imports *)

Tr(term, course, units, grade, status) ==
    [cells |-> <<term, course, units, grade, status>>, ipClass |-> FALSE]

Table(cls, parent, rows) == [cls |-> cls, parent |-> parent, rows |-> rows]

Line(term, course, units, grade) ==
    [term |-> term, course |-> course, units |-> units, grade |-> grade, inNote |-> FALSE]

NoSlice ==
    [present |-> FALSE, met |-> FALSE, cert |-> "", waived |-> FALSE,
     unfulfilled |-> FALSE, fulfilled |-> FALSE, lines |-> <<>>]

EmptySlice == [NoSlice EXCEPT !.present = TRUE]

RowSlice(course, grade) == [EmptySlice EXCEPT !.lines = <<Line("FA24", course, "3.0", grade)>>]

ModernHeaders == {"1C", "3A", "3B", "4B", "6", "3U", "Z"}

LegacyHeaders == {"A.1", "C.1", "C.2", "C.3", "D.2", "F", "Z"}

NoGeText == [isModern |-> FALSE, slices |-> [k \in LegacyHeaders |-> NoSlice]]

NoPanel ==
    [present |-> FALSE, complete |-> FALSE, hasTable |-> FALSE, rows |-> <<>>,
     certText |-> FALSE, certAttr |-> FALSE, certCell |-> FALSE, cert |-> FALSE]

Win(dept, num, after, hasIP, hasUnits, gradeTok) ==
    [dept |-> dept, glue |-> " ", num |-> num, after |-> after, hasIP |-> hasIP,
     hasUnits |-> hasUnits, gradeTok |-> gradeTok]

\* an HTML audit with the given transcript tables and nothing else
HtmlDoc(tables) ==
    [tables |-> tables, hints |-> <<>>, geText |-> NoGeText, techWins |-> <<>>,
     req6 |-> NoPanel, gradGov |-> NoPanel, scopeOk |-> TRUE]

DocBothParts ==
    HtmlDoc(<< Table(TRUE, 0, << Tr("FA24", "CPSC 120A", "2.0", "A", ""),
                                 Tr("FA24", "CPSC 120L", "1.0", "A", "") >>) >>)

DocOnePart == HtmlDoc(<< Table(TRUE, 0, << Tr("FA24", "CPSC 120A", "2.0", "A", "") >>) >>)

DocOnePartIP == HtmlDoc(<< Table(TRUE, 0, << Tr("FA24", "CPSC 120A", "2.0", "IP", "") >>) >>)

\* technical-elective codes (CPSC 481 completed, CPSC 440 behind an equals
\* sign, two in progress, one failed), EGEC 450
\* in progress, EGCP 180 passed, CPSC 131 passed by a recorded substitution,
\* and a modern GE block: 1C in progress, Area 6 complete, 3U/Z with
\* differing codes
DocTech ==
    [HtmlDoc(<< Table(TRUE, 0, << Tr("SP25", "EGEC 450", "3.0", "", "IP"),
                                  Tr("FA24", "EGCP180", "3.0", "B", ""),
                                  Tr("FA24", "CPSC 131", "3.0", "+C", "") >>) >>)
     EXCEPT !.hints = << [label |-> "CIST 4B", dept |-> "CPSC", num |-> "131"] >>,
            !.techWins = << Win("CPSC", "485", " 3.0 IP", TRUE, TRUE, ""),
                            Win("CPSC", "481", " 3.0 A", FALSE, TRUE, "A"),
                            Win("CPSC", "440", " = CIST 4B 3.0 A", FALSE, TRUE, "A"),
                            Win("CPSC", "486", " IP", TRUE, FALSE, ""),
                            Win("CPSC", "471", " 3.0 D", FALSE, TRUE, "D") >>,
            !.geText = [isModern |-> TRUE,
                        slices |-> [k \in ModernHeaders |->
                            IF k = "1C" THEN RowSlice("COMM 100", "IP")
                            ELSE IF k = "6" THEN RowSlice("ETHS 101", "A")
                            ELSE IF k = "3U" THEN RowSlice("MUS 355", "A")
                            ELSE IF k = "Z" THEN RowSlice("HIST 110B", "B+")
                            ELSE EmptySlice]]]

\* pick.name, the document behind it, and whether reading it as HTML throws
Files ==
    << [name |-> "audit.pdf",   doc |-> HtmlDoc(<<>>), throws |-> FALSE],
       [name |-> "broken.html", doc |-> HtmlDoc(<<>>), throws |-> TRUE],
       [name |-> "both.html",   doc |-> DocBothParts,  throws |-> FALSE],
       [name |-> "one.HTM",     doc |-> DocOnePart,    throws |-> FALSE],
       [name |-> "one-ip.htm",  doc |-> DocOnePartIP,  throws |-> FALSE],
       [name |-> "tech.html",   doc |-> DocTech,       throws |-> FALSE] >>

\* the transcript tables of further audits: one completedCourses table each
AuditRows ==
    << <<>>,
       << Tr("FA24", "CPSC 131", "3.0", "A", "") >>,
       << Tr("FA23", "CPSC 131", "3.0", "IP", ""), Tr("FA24", "CPSC 131", "3.0", "A", "") >>,
       << Tr("FA23", "CPSC 131", "3.0", "B", ""), Tr("FA24", "CPSC 131", "3.0", "", "IP") >>,
       << Tr("FA24", "CPSC 131", "3.0", "F", "") >>,
       << Tr("FA24", "EGEC 450", "3.0", "A", ""), Tr("FA24", "HIST 110A", "3.0", "A", ""),
          Tr("FA24", "ENGL 101", "3.0", "B", "") >>,
       << Tr("FA24", "EGEC 450", "3.0", "IP", ""), Tr("FA24", "HIST 110A", "3.0", "IP", ""),
          Tr("FA24", "ENGL 101", "3.0", "IP", "") >>,
       << Tr("FA24", "EGCP 180", "3.0", "B", ""), Tr("SP25", "EGEC 180", "3.0", "IP", "") >>,
       << Tr("FA24", "CPSC 120A", "2.0", "A", ""), Tr("FA24", "CPSC 120L", "1.0", "IP", ""),
          Tr("FA24", "EGME 180", "3.0", "CR", "") >>,
       << Tr("FA24", "POSC 100", "3.0", "A", ""), Tr("FA24", "CPSC 131", "3.0", "B", "") >>,
       << Tr("FA23", "POSC 100", "3.0", "IP", ""), Tr("FA24", "POSC 100", "3.0", "B", "") >> >>

WaivedSlice == [EmptySlice EXCEPT !.waived = TRUE]

MetSlice == [EmptySlice EXCEPT !.met = TRUE]

\* a GE text of one schema: the slices given, every other header with nothing under it
GeTextWith(modern, given) ==
    [isModern |-> modern,
     slices |-> [k \in (IF modern THEN ModernHeaders ELSE LegacyHeaders) |->
                    IF k \in DOMAIN given THEN given[k] ELSE EmptySlice]]

\* the GE blocks of further audits
AuditGe ==
    << NoGeText,
       GeTextWith(TRUE, "3A" :> WaivedSlice),
       GeTextWith(TRUE, ("1C" :> RowSlice("COMM 100", "A")) @@ ("3A" :> WaivedSlice)
                        @@ ("3B" :> MetSlice) @@ ("4B" :> RowSlice("HIST 110A", "IP"))
                        @@ ("6" :> RowSlice("ETHS 101", "A"))
                        @@ ("3U" :> RowSlice("MUS 355", "A")) @@ ("Z" :> RowSlice("MUS 355", "A"))),
       GeTextWith(TRUE, ("1C" :> RowSlice("COMM 100", "IP")) @@ ("3A" :> RowSlice("ART 101", "IP"))
                        @@ ("3B" :> RowSlice("PHIL 101", "IP")) @@ ("4B" :> RowSlice("HIST 110A", "IP"))
                        @@ ("6" :> RowSlice("ETHS 101", "IP"))),
       GeTextWith(TRUE, ("1C" :> RowSlice("COMM 100", "A")) @@ ("3A" :> RowSlice("ART 101", "B"))
                        @@ ("3B" :> RowSlice("PHIL 101", "CR")) @@ ("4B" :> RowSlice("HIST 110A", "A"))
                        @@ ("3U" :> RowSlice("MUS 355", "A")) @@ ("Z" :> RowSlice("MUS 355", "A"))),
       GeTextWith(TRUE, ("3U" :> RowSlice("MUS 355", "A")) @@ ("6" :> RowSlice("ETHS 101", "F"))),
       GeTextWith(FALSE, ("A.1" :> RowSlice("COMM 100", "IP")) @@ ("C.1" :> RowSlice("ART 101", "A"))
                         @@ ("F" :> WaivedSlice) @@ ("C.3" :> RowSlice("MUS 355", "A"))
                         @@ ("Z" :> RowSlice("HIST 110B", "IP"))),
       GeTextWith(FALSE, ("A.1" :> RowSlice("COMM 100", "A")) @@ ("D.2" :> MetSlice)) >>

\* the substitution hints and the technical-electives sections of further audits
AuditHints ==
    << <<>>,
       << [label |-> "CIST 4B", dept |-> "CPSC", num |-> "131"] >>,
       << [label |-> "CIST 4B", dept |-> "CPSC", num |-> "131"],
          [label |-> "PSCI 1", dept |-> "POSC", num |-> "100"] >> >>

AuditTech ==
    << <<>>,
       << Win("CPSC", "481", " 3.0 A", FALSE, TRUE, "A"), Win("CPSC", "485", " 3.0 IP", TRUE, TRUE, "") >>,
       << Win("CPSC", "485", " 3.0 IP", TRUE, TRUE, ""), Win("CPSC", "486", " IP", TRUE, FALSE, ""),
          Win("CPSC", "481", " 3.0 A", FALSE, TRUE, "A") >> >>

\* every combination of the above, numbered from 0
AuditDoc(i) ==
    LET nR == Len(AuditRows)
        nG == Len(AuditGe)
        nH == Len(AuditHints)
    IN  [HtmlDoc(<< Table(TRUE, 0, AuditRows[(i % nR) + 1]) >>)
         EXCEPT !.geText   = AuditGe[((i \div nR) % nG) + 1],
                !.hints    = AuditHints[((i \div (nR * nG)) % nH) + 1],
                !.techWins = AuditTech[(i \div (nR * nG * nH)) + 1]]

NumAudits == Len(AuditRows) * Len(AuditGe) * Len(AuditHints) * Len(AuditTech)

NumFiles == Len(Files) + NumAudits

\* the f-th file an import can be given: one of Files or one of the further audits
Audit(f) ==
    IF f <= Len(Files) THEN Files[f]
    ELSE [name |-> "audit.html", doc |-> AuditDoc(f - Len(Files) - 1), throws |-> FALSE]

RECURSIVE ToLower(_)
ToLower(s) == IF s = "" THEN "" ELSE ToLowerCh(Ch(s, 1)) \o ToLower(Drop(s, 1))

\* const isHtml = lower.endsWith(".html") || lower.endsWith(".htm")
isHtml(name) == EndsWith(ToLower(name), ".html") \/ EndsWith(ToLower(name), ".htm")

-----------------------------------------------------------------------------
(* ProgramMap.jsx: the component state, the manual edits and importFromTDA.
   An invocation of importFromTDA is a run; it suspends at the file picker
   (pc = "picking") and at pick.text() (pc = "reading").                      *)

MaxRuns == 2

MaxEdits == 1

Runs == 1..MaxRuns

\* the node the user edits by hand, and the note typed into the editor
EditNodes == {"TE1"}

TypedNote == "see advisor"

Manual == 0 - 1

NoStages ==
    [shown |-> NoEntries, ge |-> [isModern |-> FALSE, items |-> <<>>],
     afterIp |-> [labels |-> NoEntries, notes |-> NoEntries], unusedIds |-> <<>>,
     afterTech |-> [labels |-> NoEntries, notes |-> NoEntries],
     afterGe |-> [labels |-> NoEntries, notes |-> NoEntries, writes |-> <<>>, tries |-> <<>>,
                 open |-> <<>>],
     toStrikeIds |-> <<>>,
     nextLabels |-> NoEntries, nextNotes |-> NoEntries]

\* a run: where the handler stands, the file it picked, the `labels` it closed over
IdleRun == [pc |-> "idle", file |-> 0, shown |-> NoEntries]

\* what is recorded of the handler that ran last
Did(op, run, file, stages) == [op |-> op, run |-> run, file |-> file, stages |-> stages]

ImportIdle ==
    /\ labels = NoEntries
    /\ notes = NoEntries
    /\ labelSrc = [id \in NodeIds |-> 0]
    /\ noteSrc = [id \in NodeIds |-> 0]
    /\ runs = [r \in Runs |-> IdleRun]
    /\ onchange = 0
    /\ editor = ""
    /\ edits = 0
    /\ last = Did("init", 0, 0, NoStages)

\* ProgramMap.jsx 461-468
nextLabel(cur) ==
    IF cur = "Fall" THEN "Spr"
    ELSE IF cur = "Spr" THEN "In Prog."
    ELSE IF cur = "In Prog." THEN "Com. College"
    ELSE IF cur = "Com. College" THEN "Sum"
    ELSE IF cur = "Sum" THEN "Win"
    ELSE IF cur = "Win" THEN "" ELSE "Fall"

\* ProgramMap.jsx 470-480: Ctrl+Click on a node
cycleLabel(id) ==
    /\ edits < MaxEdits
    /\ labels' = [labels EXCEPT ![id] = nextLabel(labels[id])]
    /\ labelSrc' = [labelSrc EXCEPT ![id] = IF nextLabel(labels[id]) = "" THEN 0 ELSE Manual]
    /\ edits' = edits + 1
    /\ last' = Did("cycleLabel", 0, 0, NoStages)
    /\ UNCHANGED <<notes, noteSrc, runs, onchange, editor>>
    /\ UNCHANGED pureVars

\* ProgramMap.jsx 1060-1073: right click on a node
toggleStrike(id) ==
    /\ edits < MaxEdits
    /\ labels' = [labels EXCEPT ![id] = IF labels[id] = STRIKE THEN "" ELSE STRIKE]
    /\ labelSrc' = [labelSrc EXCEPT ![id] = IF labels[id] = STRIKE THEN 0 ELSE Manual]
    /\ edits' = edits + 1
    /\ last' = Did("toggleStrike", 0, 0, NoStages)
    /\ UNCHANGED <<notes, noteSrc, runs, onchange, editor>>
    /\ UNCHANGED pureVars

\* ProgramMap.jsx 482-489: Alt+Click on a node
openEditor(id) ==
    /\ edits < MaxEdits
    /\ editor = ""
    /\ editor' = id
    /\ last' = Did("openEditor", 0, 0, NoStages)
    /\ UNCHANGED <<labels, notes, labelSrc, noteSrc, runs, onchange, edits>>
    /\ UNCHANGED pureVars

\* ProgramMap.jsx 491-502: Save in the editor, with the text typed (val)
saveEditor(val) ==
    /\ editor # ""
    /\ notes' = [notes EXCEPT ![editor] = Trim(val)]
    /\ noteSrc' = [noteSrc EXCEPT ![editor] = IF Trim(val) = "" THEN 0 ELSE Manual]
    /\ editor' = ""
    /\ edits' = edits + 1
    /\ last' = Did("saveEditor", 0, 0, NoStages)
    /\ UNCHANGED <<labels, labelSrc, runs, onchange>>
    /\ UNCHANGED pureVars

\* ProgramMap.jsx 546-559: the handler up to its first await
StartImport(r) ==
    /\ runs[r].pc = "idle"
    /\ \A q \in Runs : q < r => runs[q].pc # "idle"
    /\ labels' = NoEntries
    /\ notes' = NoEntries
    /\ labelSrc' = [id \in NodeIds |-> 0]
    /\ noteSrc' = [id \in NodeIds |-> 0]
    /\ editor' = ""
    /\ runs' = [runs EXCEPT ![r] = [IdleRun EXCEPT !.pc = "picking", !.shown = labels]]
    /\ onchange' = r
    /\ last' = Did("start", r, 0, NoStages)
    /\ UNCHANGED edits
    /\ UNCHANGED pureVars

\* ProgramMap.jsx 557-578: the input's change event resolves the promise of the
\* run that set onchange last; f = 0 is an event without a file
ChangeEvent(f) ==
    /\ onchange # 0
    /\ runs[onchange].pc = "picking"
    /\ runs' = [runs EXCEPT ![onchange] =
                  IF f = 0 \/ ~isHtml(Audit(f).name) THEN [IdleRun EXCEPT !.pc = "aborted"]
                  ELSE [@ EXCEPT !.pc = "reading", !.file = f]]
    /\ last' = Did("change", onchange, f, NoStages)
    /\ UNCHANGED <<labels, notes, labelSrc, noteSrc, onchange, editor, edits>>
    /\ UNCHANGED pureVars

\* parseTdaEvidenceFromHtml(text) of the text of the f-th file
Evidence(f) == parseTdaEvidenceFromHtml(Audit(f).doc)

\* ProgramMap.jsx 570-571, 793-795: pick.text() resolves and the parse throws
ImportFails(r) ==
    /\ runs[r].pc = "reading"
    /\ Audit(runs[r].file).throws \/ Evidence(runs[r].file).thrown
    /\ runs' = [runs EXCEPT ![r] = [IdleRun EXCEPT !.pc = "aborted"]]
    /\ last' = Did("fail", r, runs[r].file, NoStages)
    /\ UNCHANGED <<labels, notes, labelSrc, noteSrc, onchange, editor, edits>>
    /\ UNCHANGED pureVars

\* a commit that merges into the maps on display
Commit_Merge(r, nextLabels, nextNotes) ==
    /\ labels' = [id \in NodeIds |-> IF nextLabels[id] # "" THEN nextLabels[id] ELSE labels[id]]
    /\ notes' = [id \in NodeIds |-> IF nextNotes[id] # "" THEN nextNotes[id] ELSE notes[id]]
    /\ labelSrc' = [id \in NodeIds |-> IF nextLabels[id] # "" THEN r ELSE labelSrc[id]]
    /\ noteSrc' = [id \in NodeIds |-> IF nextNotes[id] # "" THEN r ELSE noteSrc[id]]

\* setLabels(nextLabels); setNotes(nextNotes)
Commit(r, nextLabels, nextNotes) ==
    /\ labels' = nextLabels
    /\ notes' = nextNotes
    /\ labelSrc' = [id \in NodeIds |-> IF nextLabels[id] = "" THEN 0 ELSE r]
    /\ noteSrc' = [id \in NodeIds |-> IF nextNotes[id] = "" THEN 0 ELSE r]

\* ProgramMap.jsx 570-792: pick.text() resolves; parse, reconcile and commit
ImportCommits(r) ==
    /\ runs[r].pc = "reading"
    /\ ~Audit(runs[r].file).throws /\ ~Evidence(runs[r].file).thrown
    /\ \E st \in {ImportCompute(Evidence(runs[r].file), runs[r].shown)} :
           /\ Commit(r, st.nextLabels, st.nextNotes)
           /\ last' = Did("commit", r, runs[r].file, st)
    /\ runs' = [runs EXCEPT ![r] = [IdleRun EXCEPT !.pc = "done"]]
    /\ UNCHANGED <<onchange, editor, edits>>
    /\ UNCHANGED pureVars

Next ==
    \/ \E id \in EditNodes : cycleLabel(id)
    \/ \E id \in EditNodes : toggleStrike(id)
    \/ \E id \in EditNodes : openEditor(id)
    \/ saveEditor(TypedNote)
    \/ \E r \in Runs : StartImport(r)
    \/ \E f \in 0..Len(Files) : ChangeEvent(f)
    \/ \E r \in Runs : ImportFails(r)
    \/ \E r \in Runs : ImportCommits(r)

\* one import, of any of the audits
ImportNext ==
    \/ StartImport(1)
    \/ \E f \in 0..NumFiles : ChangeEvent(f)
    \/ ImportFails(1)
    \/ ImportCommits(1)

-----------------------------------------------------------------------------
(* SpecRows: the extraction paths applied to one transcript.  A transcript is
   a tree of tables with transcript rows; the free-text paths read the same
   rows as lines of text, the HTML path reads the tables.                     *)

MaxTables == 3

\* the grades a transcript row is given
Grades ==
    {"A", "A-", "B+", "B", "B-", "C+", "C", "C-", "CR", "P",
     "D+", "D", "D-", "F", "IP", "A+", "W"}

\* one table holding the row FA24 MATH 150A 4.0 <g>
GradeDoc(g) ==
    [kind |-> "grade", grade |-> g, hints |-> <<>>, mentions |-> {}, html |-> HtmlDoc(<<>>),
     tables |-> << Table(TRUE, 0, << Tr("FA24", "MATH 150A", "4.0", g, "") >>) >>]

\* one table holding the row FA24 MATH 150A 4.0 <g> <st>, with or without a
\* status cell, with or without the class ip / inprog on the <tr>
StatusDocs ==
    { [kind |-> "status", grade |-> g, hints |-> <<>>, mentions |-> {}, html |-> HtmlDoc(<<>>),
       tables |-> << Table(TRUE, 0,
                       << [cells |-> SubSeq(<<"FA24", "MATH 150A", "4.0", g, st>>, 1, n),
                           ipClass |-> c] >>) >>] :
        g \in {"", "A", "+C", "F", "IP"}, st \in {"", "IP", " ip", "OK", "RP"},
        n \in {4, 5}, c \in BOOLEAN }

\* the code of the one row of table i of a tree: CPSC 101, CPSC 102, ...
TreeCode(i) == "CPSC 10" \o ToString(i)

\* up to MaxTables tables, each inside a cell of an earlier one or at the top
\* (parent 0), each with or without class completedCourses, each holding the
\* row FA24 <TreeCode(i)> 3.0 A
TreeDocs ==
    UNION { { [kind |-> "tree", grade |-> "A", hints |-> <<>>, mentions |-> {},
               html |-> HtmlDoc(<<>>),
               tables |-> [i \in 1..n |->
                              Table(cls[i], par[i], << Tr("FA24", TreeCode(i), "3.0", "A", "") >>)]]
              : par \in { p \in [1..n -> 0..n] : \A i \in 1..n : p[i] < i },
                cls \in [1..n -> BOOLEAN] }
            : n \in 1..MaxTables }

\* the rows of all tables in document order, as lines of text
RECURSIVE TextLines(_, _)
TextLines(tables, i) ==
    IF i > Len(tables) THEN <<>>
    ELSE [k \in 1..Len(tables[i].rows) |->
            Line(tables[i].rows[k].cells[1], tables[i].rows[k].cells[2],
                 tables[i].rows[k].cells[3], tables[i].rows[k].cells[4])]
         \o TextLines(tables, i + 1)

\* the substitution hint *CIST 4B SUBS CPSC 131*
HintCist == [label |-> "CIST 4B", dept |-> "CPSC", num |-> "131"]

\* mentions of the label attributed to an institution: 'WValleyC: CIST 4B' and,
\* glued and in lower case, 'WValleyC:cist 4b'
InstitutionMentions ==
    { [before |-> "WValleyC: ", text |-> "CIST 4B"],
      [before |-> "WValleyC:", text |-> "cist 4b 3.0 A"] }

\* mentions that attribute nothing: the label in running text, a longer label
\* and another label after the institution
OtherMentions ==
    { [before |-> "see ", text |-> "CIST 4B"],
      [before |-> "WValleyC: ", text |-> "CIST 4BX"],
      [before |-> "WValleyC: ", text |-> "CIST 4A"] }

\* an audit with the hint, any of the mentions, and the target CPSC 131 either
\* absent from the transcript rows or on a row graded A, F or IP
SubsDocs ==
    { [kind |-> "subs", grade |-> g, hints |-> << HintCist >>, mentions |-> ms,
       html |-> HtmlDoc(<<>>),
       tables |-> << Table(TRUE, 0,
                       IF g = "" THEN <<>> ELSE << Tr("FA24", "CPSC 131", "3.0", g, "") >>) >>]
      : g \in {"", "A", "F", "IP"}, ms \in SUBSET (InstitutionMentions \cup OtherMentions) }

\* the Area 6 panel: absent; present without completion signal; or complete
\* with a local completedCourses table or none, the table holding no row, the
\* row FA24 ETHS 101 3.0 A, the same row in progress, or failed, and the
\* certification in the panel text, in a pseudolist attribute, in a course
\* cell, or nowhere
Req6Panels ==
    { NoPanel, [NoPanel EXCEPT !.present = TRUE, !.certAttr = TRUE] }
    \cup { [NoPanel EXCEPT !.present = TRUE, !.complete = TRUE, !.hasTable = tb,
                           !.rows = rs, !.certText = ct, !.certAttr = ca, !.certCell = cc]
           : tb \in BOOLEAN, ct \in BOOLEAN, ca \in BOOLEAN, cc \in BOOLEAN,
             rs \in { <<>>, << Tr("FA24", "ETHS 101", "3.0", "A", "") >>,
                      << Tr("SP25", "ETHS 101", "3.0", "", "IP") >>,
                      << Tr("FA24", "ETHS 101", "3.0", "F", "") >> } }

\* the GRADGOV panel: absent, or complete with a POSC 100 row or by certification
GradGovPanels ==
    { NoPanel,
      [NoPanel EXCEPT !.present = TRUE, !.complete = TRUE, !.hasTable = TRUE,
                      !.rows = << Tr("FA24", "POSC 100", "3.0", "B", "") >>],
      [NoPanel EXCEPT !.present = TRUE, !.complete = TRUE, !.cert = TRUE] }

\* the text under the GE Area 6 header: nothing, the row FA24 AFAM 107 3.0 A
\* outside any completedCourses table, the same row in progress, or a
\* certification line
Area6Texts ==
    { EmptySlice, RowSlice("AFAM 107", "A"), RowSlice("AFAM 107", "IP"),
      [EmptySlice EXCEPT !.cert = "F"] }

\* an HTML audit with the transcript row FA24 CPSC 120 3.0 A, the two panels
\* (a local table of a panel is a completedCourses table of the document), the
\* modern GE text, a substitution hint and a technical elective, read on a DOM
\* with or without support for the :scope selector
PanelDoc(p6, gg, t6, scopeOk) ==
    [kind |-> "panel", grade |-> "A", hints |-> << HintCist >>, mentions |-> {},
     tables |-> << Table(TRUE, 0, << Tr("FA24", "CPSC 120", "3.0", "A", "") >>) >>
                \o (IF p6.hasTable THEN << Table(TRUE, 0, p6.rows) >> ELSE <<>>)
                \o (IF gg.hasTable THEN << Table(TRUE, 0, gg.rows) >> ELSE <<>>),
     html |-> [HtmlDoc(<<>>) EXCEPT
                 !.hints = << HintCist >>,
                 !.techWins = << Win("CPSC", "481", " 3.0 A", FALSE, TRUE, "A") >>,
                 !.geText = [isModern |-> TRUE,
                             slices |-> [k \in ModernHeaders |->
                                            IF k = "6" THEN t6 ELSE EmptySlice]],
                 !.req6 = p6, !.gradGov = gg, !.scopeOk = scopeOk]]

\* a technical-electives section with one course-code occurrence: CPSC 440
\* (glued or not) followed by a plain row, by an articulation behind '=' or
\* '-' with units and grade, with an IP token, or with nothing else
TechWindows ==
    { [Win("CPSC", "440", w.after, w.hasIP, w.hasUnits, w.gradeTok) EXCEPT !.glue = g] :
        g \in {" ", ""},
        w \in { [after |-> " 3.0 A",             hasIP |-> FALSE, hasUnits |-> TRUE,  gradeTok |-> "A"],
                [after |-> " = CIST 4B 3.0 A",   hasIP |-> FALSE, hasUnits |-> TRUE,  gradeTok |-> "A"],
                [after |-> "=CIST 4B 3.0 B+",    hasIP |-> FALSE, hasUnits |-> TRUE,  gradeTok |-> "B"],
                [after |-> " - CIST 4B 3.0 CR",  hasIP |-> FALSE, hasUnits |-> TRUE,  gradeTok |-> "CR"],
                [after |-> " = CIST 4B IP",      hasIP |-> TRUE,  hasUnits |-> FALSE, gradeTok |-> ""],
                [after |-> " = CIST 4B",         hasIP |-> FALSE, hasUnits |-> FALSE, gradeTok |-> ""] } }

TechDocs ==
    { [kind |-> "tech", grade |-> "A", hints |-> <<>>, mentions |-> {},
       tables |-> << Table(TRUE, 0, << Tr("FA24", "CPSC 120", "3.0", "A", "") >>) >>,
       html |-> [HtmlDoc(<<>>) EXCEPT !.techWins = << w >>]] : w \in TechWindows }

PanelDocs ==
    { PanelDoc(p6, gg, t6, ok) :
        p6 \in { p \in Req6Panels : (p.rows # <<>> \/ p.certCell) => p.hasTable },
        gg \in GradGovPanels, t6 \in Area6Texts, ok \in BOOLEAN }

TextOf(doc) == [lines |-> TextLines(doc.tables, 1), hints |-> doc.hints, mentions |-> doc.mentions]

\* what a path leaves beside rows, passed and ip
NoMore == [subs |-> <<>>, ge6 |-> NoRec, tech |-> [completed |-> <<>>, ip |-> <<>>],
           overlayThrew |-> FALSE, thrown |-> FALSE]

RowIdle ==
    [doc |-> GradeDoc("A"), path |-> "none", rows |-> <<>>, passed |-> {}, ip |-> {},
     more |-> NoMore]

RowInit ==
    rowv \in { [RowIdle EXCEPT !.doc = d] :
                 d \in { GradeDoc(g) : g \in Grades } \cup TreeDocs \cup SubsDocs \cup PanelDocs
                        \cup TechDocs \cup StatusDocs }

Ran(path, rows, passed, ip, more) ==
    /\ rowv.path = "none"
    /\ rowv' = [rowv EXCEPT !.path = path, !.rows = rows, !.passed = passed, !.ip = ip,
                            !.more = more]
    /\ UNCHANGED <<eqv, gev, planv, importVars>>

TextEvidence ==
    \E ev \in {parseTdaEvidence(TextOf(rowv.doc))} :
        Ran("parseTdaEvidence", ev.rows, ev.passed, ev.ip, [NoMore EXCEPT !.subs = ev.subs])

TextPassedCodes ==
    \E codes \in {parseTdaPassedCodes(TextOf(rowv.doc))} :
        Ran("parseTdaPassedCodes", <<>>, codes, {}, NoMore)

TextIpCodes ==
    \E codes \in {parseTdaIpCodes(TextOf(rowv.doc))} :
        Ran("parseTdaIpCodes", <<>>, {}, codes, NoMore)

\* the document as the HTML path reads it
HtmlOf(doc) == [doc.html EXCEPT !.tables = doc.tables, !.hints = doc.hints]

\* items[key], NoRec when the parser left no such key
SlotOf(items, key) == IF key \in DOMAIN items THEN items[key] ELSE NoRec

HtmlEvidence ==
    \E ev \in {parseTdaEvidenceFromHtml(HtmlOf(rowv.doc))} :
        Ran("parseTdaEvidenceFromHtml", ev.rows, ev.passed, ev.ip,
            [subs |-> ev.subs, ge6 |-> SlotOf(ev.ge.items, "6"), tech |-> ev.tech,
             overlayThrew |-> ev.overlayThrew, thrown |-> ev.thrown])

-----------------------------------------------------------------------------
(* SpecGe: parseGeFromTda on an audit whose 3U (C.3) and Z slices are given.
   A side is the slice the parser cuts at the header together with the status
   and course code the slice shows.                                          *)

Side(slice, status, code) == [slice |-> slice, status |-> status, code |-> code]

\* a course as the audit prints it, and the code it stands for
GeCourses ==
    { [text |-> "MUS 355", code |-> "MUS 355"],
      [text |-> "HIST 110B", code |-> "HIST 110B"],
      [text |-> "mus  355", code |-> "MUS 355"] }

Sides ==
    { Side(NoSlice, "", ""), Side(EmptySlice, "", ""),
      Side([EmptySlice EXCEPT !.met = TRUE], "complete", ""),
      Side([EmptySlice EXCEPT !.waived = TRUE], "complete", "") }
    \cup { Side(RowSlice(c.text, "A"), "complete", c.code) : c \in GeCourses }
    \cup { Side(RowSlice(c.text, "IP"), "IP", c.code) : c \in GeCourses }
    \cup { Side(RowSlice(c.text, "F"), "", c.code) : c \in GeCourses }

GeIdle ==
    [modern |-> TRUE, a |-> Side(NoSlice, "", ""), z |-> Side(NoSlice, "", ""),
     done |-> FALSE, rec |-> NoRec]

GeInit ==
    gev \in { [GeIdle EXCEPT !.modern = m, !.a = a, !.z = z] :
                m \in BOOLEAN, a \in Sides, z \in Sides }

\* the audit text: every other slot header present with nothing under it
GeTextOf(modern, a, z) ==
    [isModern |-> modern,
     slices |-> IF modern
                THEN [k \in ModernHeaders |->
                         IF k = "3U" THEN a ELSE IF k = "Z" THEN z ELSE EmptySlice]
                ELSE [k \in LegacyHeaders |->
                         IF k = "C.3" THEN a ELSE IF k = "Z" THEN z ELSE EmptySlice]]

ParseGe ==
    /\ ~gev.done
    /\ gev' = [gev EXCEPT
                 !.done = TRUE,
                 !.rec = parseGeFromTda(GeTextOf(gev.modern, gev.a.slice, gev.z.slice))
                            .items[IF gev.modern THEN "3U/Z" ELSE "C.3/Z"]]
    /\ UNCHANGED <<eqv, rowv, planv, importVars>>

-----------------------------------------------------------------------------
(* SpecPick: pickCourseStatus on one slice.  The slice is given with the grade
   of the first transcript row it shows outside notes ("" when it shows none). *)

PickRows ==
    { [lines |-> <<>>, first |-> ""],
      [lines |-> << [Line("FA24", "MUS 355", "3.0", "A") EXCEPT !.inNote = TRUE] >>, first |-> ""] }
    \cup { [lines |-> << Line("FA24", "MUS 355", "3.0", g) >>, first |-> g] :
             g \in {"A", "C-", "CR", "IP", "D", "F"} }
    \cup { [lines |-> << Line("FA23", "ART 101", "3.0", "F"), Line("FA24", "MUS 355", "3.0", "A") >>,
            first |-> "F"] }

PickSlices ==
    { [slice |-> [present |-> TRUE, met |-> m, cert |-> c, waived |-> w,
                  unfulfilled |-> u, fulfilled |-> f, lines |-> r.lines],
       first |-> r.first] :
        m \in BOOLEAN, c \in {"", "F", "C2"}, w \in BOOLEAN, u \in BOOLEAN, f \in BOOLEAN,
        r \in PickRows }

PickInit == gev \in { [GeIdle EXCEPT !.a = a] : a \in PickSlices }

PickStatus ==
    /\ ~gev.done
    /\ gev' = [gev EXCEPT !.done = TRUE, !.rec = pickCourseStatus(gev.a.slice)]
    /\ UNCHANGED <<eqv, rowv, planv, importVars>>

-----------------------------------------------------------------------------
(* SpecSlice: sliceByHeader for one slot of one schema on a text of up to
   MaxPlaces places.                                                          *)

MaxPlaces == 5

\* what a place of the text can hold: a slot header, a boundary-only header,
\* a header of the other schema only, or a transcript line
PlaceKinds == {"1C", "3A", "_5A", "C.1", "row"}

SliceTexts == UNION { [1..n -> PlaceKinds] : n \in 0..MaxPlaces }

SliceInit ==
    gev \in { [GeIdle EXCEPT !.a = [text |-> t, key |-> k]] :
                t \in SliceTexts, k \in {"1C", "3A"} }

\* sliceByHeader(allText, schema.headers[k], hdrList.filter((r) => r !== schema.headers[k]))
SliceSlot ==
    /\ ~gev.done
    /\ gev' = [gev EXCEPT
                 !.done = TRUE,
                 !.rec = sliceByHeader(gev.a.text, gev.a.key,
                                       OtherHeaders(HeaderKeys(gev.modern), gev.a.key))]
    /\ UNCHANGED <<eqv, rowv, planv, importVars>>

-----------------------------------------------------------------------------
(* graph/checkPlan.js.  labels maps a course id to its label, "" for an id
   without entry; Object.entries(labels) is taken in the order of PlanIds.
   A problem is recorded by its parts instead of its sentence.               *)

SEASONALS == {"Fall", "Spr", "Sum", "Win", "Com. College", "In Prog."}

\* one token of the offering text, in lower case
normalizeSeason(t) ==
    IF t = "" THEN ""
    ELSE IF Take(t, 2) = "fa" THEN "Fall"
    ELSE IF Take(t, 2) = "sp" \/ Take(t, 2) = "sr" THEN "Spr"
    ELSE IF Take(t, 2) = "su" THEN "Sum"
    ELSE IF Take(t, 2) = "wi" THEN "Win"
    ELSE IF Take(t, 3) = "com" THEN "Com. College"
    ELSE IF Take(t, 2) = "in" THEN "In Prog."
    ELSE ""

\* off is the offering text split at /[^A-Za-z]+/
parseOffering(off) ==
    { normalizeSeason(ToLower(Trim(off[i]))) : i \in 1..Len(off) } \ {""}

\* the course map of the check: EGEC 471 needs EGEC 450 and CPSC 131 before
\* and EGEC 471L alongside; EGEC 450 needs CPSC 131
PlanMap ==
    [A |-> [code |-> "EGEC 471",  prereqs |-> <<"B", "D">>, coreqs |-> <<"C">>,
            offering |-> <<"Spring", "Only">>],
     B |-> [code |-> "EGEC 450",  prereqs |-> <<"D">>, coreqs |-> <<>>,
            offering |-> <<"Fall", "Only">>],
     C |-> [code |-> "EGEC 471L", prereqs |-> <<>>, coreqs |-> <<>>, offering |-> <<>>],
     D |-> [code |-> "CPSC 131",  prereqs |-> <<>>, coreqs |-> <<>>, offering |-> <<>>]]

PlanIds == <<"A", "B", "C", "D">>

\* a prerequisite that only carries a strike is not taken as satisfied
isSatisfied_ScheduledOnly(lbls, pid) == lbls[pid] \in SEASONALS

isSatisfied(lbls, pid) == lbls[pid] \in SEASONALS \/ lbls[pid] = "__strike__"

\* ids.filter(keep), as a sequence
RECURSIVE Unmet(_, _)
Unmet(lbls, ids) ==
    IF ids = <<>> THEN <<>>
    ELSE (IF isSatisfied(lbls, Head(ids)) THEN <<>> ELSE << PlanMap[Head(ids)].code >>)
         \o Unmet(lbls, Tail(ids))

\* checkPlan.js 37-60: one problem per scheduled course with an unmet prereq or coreq
RECURSIVE MissingProblems(_, _)
MissingProblems(lbls, ids) ==
    LET Problem(c, unmetPre, unmetCo) ==
            IF unmetPre # <<>> \/ unmetCo # <<>>
            THEN << [kind |-> "missing", course |-> PlanMap[c].code,
                     pre |-> unmetPre, co |-> unmetCo, label |-> ""] >>
            ELSE <<>>
        Course(c) ==
            IF lbls[c] \notin SEASONALS THEN <<>>
            ELSE Problem(c, Unmet(lbls, PlanMap[c].prereqs), Unmet(lbls, PlanMap[c].coreqs))
    IN  IF ids = <<>> THEN <<>> ELSE Course(Head(ids)) \o MissingProblems(lbls, Tail(ids))

\* checkPlan.js 62-78: a prereq scheduled under the same label as the course
RECURSIVE SameTermProblems(_, _)
SameTermProblems(lbls, ids) ==
    LET RECURSIVE Pre(_, _)
        Pre(c, pids) ==
            IF pids = <<>> THEN <<>>
            ELSE (IF lbls[Head(pids)] \in SEASONALS /\ lbls[Head(pids)] = lbls[c]
                  THEN << [kind |-> "sameTerm", course |-> PlanMap[c].code,
                           pre |-> << PlanMap[Head(pids)].code >>, co |-> <<>>,
                           label |-> lbls[c]] >>
                  ELSE <<>>)
                 \o Pre(c, Tail(pids))
        Course(c) == IF lbls[c] \notin SEASONALS THEN <<>> ELSE Pre(c, PlanMap[c].prereqs)
    IN  IF ids = <<>> THEN <<>> ELSE Course(Head(ids)) \o SameTermProblems(lbls, Tail(ids))

\* checkPlan.js 80-96: a term label outside the offering of the course
RECURSIVE OfferingProblems(_, _)
OfferingProblems(lbls, ids) ==
    LET Course(c, allowed) ==
            IF lbls[c] = "" \/ lbls[c] \in {"In Prog.", "Com. College", "__strike__"} THEN <<>>
            ELSE IF allowed = {} \/ lbls[c] \in allowed THEN <<>>
            ELSE << [kind |-> "offering", course |-> PlanMap[c].code,
                     pre |-> <<>>, co |-> <<>>, label |-> lbls[c]] >>
    IN  IF ids = <<>> THEN <<>>
        ELSE Course(Head(ids), parseOffering(PlanMap[Head(ids)].offering))
             \o OfferingProblems(lbls, Tail(ids))

checkPlan(lbls) ==
    MissingProblems(lbls, PlanIds) \o SameTermProblems(lbls, PlanIds)
        \o OfferingProblems(lbls, PlanIds)

\* the labels a node can carry: none, four of the scheduled ones, struck, Review
PlanLabels == {"", "Fall", "Spr", "Com. College", "In Prog.", "__strike__", "Review"}

PlanIdle == [labels |-> [c \in DOMAIN PlanMap |-> ""], done |-> FALSE, problems |-> <<>>]

PlanInit == planv \in { [PlanIdle EXCEPT !.labels = l] : l \in [DOMAIN PlanMap -> PlanLabels] }

CheckPlan ==
    /\ ~planv.done
    /\ planv' = [planv EXCEPT !.done = TRUE, !.problems = checkPlan(planv.labels)]
    /\ UNCHANGED <<eqv, rowv, gev, importVars>>

-----------------------------------------------------------------------------
(* Specifications *)

EquivNext == CheckSatisfied \/ CheckIp

RowNext == TextEvidence \/ TextPassedCodes \/ TextIpCodes \/ HtmlEvidence

\* the import handler and the manual edits of the flowchart
Init == eqv = EquivIdle /\ rowv = RowIdle /\ gev = GeIdle /\ planv = PlanIdle /\ ImportIdle

Spec == Init /\ [][Next]_vars

\* the equivalency matchers
InitEquiv == EquivInit /\ rowv = RowIdle /\ gev = GeIdle /\ planv = PlanIdle /\ ImportIdle

SpecEquiv == InitEquiv /\ [][EquivNext]_vars

\* the extraction paths
InitRows == eqv = EquivIdle /\ RowInit /\ gev = GeIdle /\ planv = PlanIdle /\ ImportIdle

SpecRows == InitRows /\ [][RowNext]_vars

\* the dual-source GE merge
InitNorm == NormInit /\ rowv = RowIdle /\ gev = GeIdle /\ planv = PlanIdle /\ ImportIdle

SpecNorm == InitNorm /\ [][NormOnce \/ NormTwice]_vars

InitPlan == eqv = EquivIdle /\ rowv = RowIdle /\ gev = GeIdle /\ PlanInit /\ ImportIdle

SpecPlan == InitPlan /\ [][CheckPlan]_vars

SpecImport == Init /\ [][ImportNext]_vars

InitSlice == eqv = EquivIdle /\ rowv = RowIdle /\ SliceInit /\ planv = PlanIdle /\ ImportIdle

SpecSlice == InitSlice /\ [][SliceSlot]_vars

InitPick == eqv = EquivIdle /\ rowv = RowIdle /\ PickInit /\ planv = PlanIdle /\ ImportIdle

SpecPick == InitPick /\ [][PickStatus]_vars

InitGe == eqv = EquivIdle /\ rowv = RowIdle /\ GeInit /\ planv = PlanIdle /\ ImportIdle

SpecGe == InitGe /\ [][ParseGe]_vars

-----------------------------------------------------------------------------
(* Properties of the equivalency matchers (SpecEquiv) *)

\* C1: for a code with an equivalency entry, isSatisfiedWithEquivs answers a
\* combined or placeholder query with TRUE iff the passed set holds the combined
\* code or both part codes (one part alone never satisfies it), and a part
\* query iff the set holds that part or the combined code.
C1_SatisfiedWithEquivs ==
    (eqv.satDone /\ eqv.q.key # "") =>
        LET combined == eqv.q.key \in eqv.set
            partA    == (eqv.q.key \o "A") \in eqv.set
            partL    == (eqv.q.key \o "L") \in eqv.set
        IN  /\ eqv.q.form \in {"combined", "placeholder"} =>
                  /\ eqv.sat <=> (combined \/ (partA /\ partL))
                  /\ (~combined /\ ~(partA /\ partL)) => ~eqv.sat
            /\ eqv.q.form = "partA" => (eqv.sat <=> (partA \/ combined))
            /\ eqv.q.form = "partL" => (eqv.sat <=> (partL \/ combined))

\* a placeholder query against a set holding one part only, answered FALSE
C1_Witness ==
    /\ eqv.satDone
    /\ eqv.q.text = "CPSC 121A/L"
    /\ eqv.set = {"CPSC 121A", "CPSC 131"}
    /\ ~eqv.sat

\* C4: for a code with an equivalency entry, isIpMatch answers a combined or
\* placeholder query with TRUE iff the ip set holds the combined code or either
\* part, and a part query iff the set holds that part or the combined code; the
\* sibling part alone does not match.
C4_IpMatch ==
    (eqv.ipDone /\ eqv.q.key # "") =>
        LET combined == eqv.q.key \in eqv.set
            partA    == (eqv.q.key \o "A") \in eqv.set
            partL    == (eqv.q.key \o "L") \in eqv.set
        IN  /\ eqv.q.form \in {"combined", "placeholder"} =>
                  (eqv.ip <=> (combined \/ partA \/ partL))
            /\ eqv.q.form = "partA" => (eqv.ip <=> (partA \/ combined))
            /\ eqv.q.form = "partL" => (eqv.ip <=> (partL \/ combined))

\* a part query against a set holding the sibling part only, answered FALSE
C4_Witness ==
    /\ eqv.ipDone
    /\ eqv.q.text = "cpsc120a"
    /\ eqv.set = {"CPSC 120L"}
    /\ ~eqv.ip

-----------------------------------------------------------------------------
(* Properties of the import (Spec) *)

Committed(name) == last.op = "commit" /\ Audit(last.file).name = name

\* C2: an import of the rows FA24 CPSC 120A 2.0 A and FA24 CPSC 120L 1.0 A
\* ends with the node coded CPSC 120 struck; an import of the row
\* FA24 CPSC 120A 2.0 A alone ends with that node not struck.
C2_CombinedNodeStruck ==
    /\ Committed("both.html") => labels["CPSC120"] = STRIKE
    /\ Committed("one.HTM") => labels["CPSC120"] # STRIKE

C2_Witness == Committed("both.html") /\ labels["CPSC120"] = STRIKE

\* C3 as stated: an import of the row FA24 CPSC 120A 2.0 A alone ends with the
\* node coded CPSC 120A labelled 'In Prog.'.
C3_PartNodeInProgress == Committed("one.HTM") => labels["CPSC120A"] = "In Prog."

\* C3: an import of the row FA24 CPSC 120A 2.0 A alone ends with the node
\* coded CPSC 120A struck, the grade A being a passing one; the node ends
\* labelled 'In Prog.' when the row carries IP for a grade.
C3_PartNodeStruck ==
    /\ Committed("one.HTM") => labels["CPSC120A"] = STRIKE
    /\ Committed("one-ip.htm") => labels["CPSC120A"] = "In Prog."

C3_Witness == Committed("one.HTM") /\ labels["CPSC120A"] = STRIKE /\ labels["CPSC120"] = ""

\* the runs whose entries are on display
ShownRuns == ({ labelSrc[id] : id \in NodeIds } \cup { noteSrc[id] : id \in NodeIds }) \cap Runs

\* C7: importFromTDA clears labels and notes before it acquires the document
\* and commits exactly the maps its run computed; in every interleaving of
\* runs, manual edits and aborting runs the entries on display never come from
\* two different runs, and a run that aborts commits nothing.
C7_RunIsolation ==
    /\ [](/\ Cardinality(ShownRuns) <= 1
          /\ \A r \in ShownRuns : runs[r].pc = "done"
          /\ last.op = "start" => labels = NoEntries /\ notes = NoEntries
          /\ last.op = "commit" =>
                labels = last.stages.nextLabels /\ notes = last.stages.nextNotes)
    /\ [][(\E r \in Runs : runs[r].pc # "aborted" /\ runs'[r].pc = "aborted")
             => UNCHANGED <<labels, notes>>]_vars

\* the older run commits after the newer one did, and only its entries show
C7_Witness ==
    /\ last.op = "commit" /\ last.run = 1
    /\ runs[2].pc = "done"
    /\ ShownRuns = {1}

\* C8: a label a node carries from a manual edit made before an import is
\* still carried by the node in the result the import commits.  (Before the
\* first commit every label on display comes from a manual edit.)
C8_ManualEditsPreserved ==
    [][\A r \in Runs :
          (/\ runs[r].pc = "reading" /\ runs'[r].pc = "done"
           /\ \A q \in Runs : runs[q].pc # "done")
          => \A id \in NodeIds : runs[r].shown[id] # "" => labels'[id] = runs[r].shown[id]]_vars

\* the Tech Elective nodes, in chart order, without label or note after the
\* IP pass and not struck when the import was invoked
UnusedTechNodes(st) ==
    LET Unused(c) ==
            /\ c.category = "Tech Elective"
            /\ st.afterIp.labels[c.id] = "" /\ st.afterIp.notes[c.id] = ""
            /\ st.shown[c.id] # STRIKE
    IN  SelectSeq(Chart, Unused)

\* C9: when tech.completed and tech.ip hold more codes than there are unused
\* Tech Elective nodes, step 5 fills exactly the unused nodes, one code each:
\* completed codes first in their order (note = code, label = __strike__),
\* then IP codes (note = code, label = 'In Prog.'); the codes left over are
\* dropped and no other node is written by the step.
C9_TechAllocation ==
    last.op = "commit" =>
        LET st     == last.stages
            tech   == Evidence(last.file).tech
            codes  == tech.completed \o tech.ip
            unused == UnusedTechNodes(st)
        IN  Len(codes) > Len(unused) =>
               /\ \A j \in 1..Len(unused) :
                     /\ st.afterTech.notes[unused[j].id] = codes[j]
                     /\ st.afterTech.labels[unused[j].id] =
                           IF j <= Len(tech.completed) THEN STRIKE ELSE "In Prog."
               /\ \A id \in NodeIds \ { unused[j].id : j \in 1..Len(unused) } :
                     /\ st.afterTech.notes[id] = st.afterIp.notes[id]
                     /\ st.afterTech.labels[id] = st.afterIp.labels[id]

\* four codes for one unused node: TE1 was struck by hand, EGEC 450 is in progress
C9_Witness ==
    /\ Committed("tech.html")
    /\ last.stages.shown["TE1"] = STRIKE
    /\ last.stages.afterIp.labels["TE450"] = "In Prog."
    /\ last.stages.afterTech.notes["TE2"] = "CPSC 481"
    /\ last.stages.afterTech.notes["TE1"] = ""

-----------------------------------------------------------------------------
(* Properties of the extraction paths (SpecRows) *)

PassList == {"A", "A-", "B+", "B", "B-", "C+", "C", "C-", "CR", "P"}

\* C5: in parseTdaEvidence, parseTdaPassedCodes and parseTdaEvidenceFromHtml
\* the code of a row is in passed iff the row's grade is one of A, A-, B+, B,
\* B-, C+, C, C-, CR, P; a row graded D+, D, D- or F is never in passed; a
\* row graded IP is in ip only.
C5_PassingClassification ==
    (/\ rowv.doc.kind = "grade"
     /\ rowv.path \in {"parseTdaEvidence", "parseTdaPassedCodes", "parseTdaEvidenceFromHtml"}) =>
        /\ ("MATH 150A" \in rowv.passed) <=> (rowv.doc.grade \in PassList)
        /\ rowv.doc.grade \in {"D+", "D", "D-", "F"} => "MATH 150A" \notin rowv.passed
        /\ rowv.doc.grade = "IP" =>
              /\ "MATH 150A" \notin rowv.passed
              /\ rowv.path # "parseTdaPassedCodes" => "MATH 150A" \in rowv.ip

\* the tables above table i, nearest first
RECURSIVE TablesAbove(_, _)
TablesAbove(tables, i) ==
    IF tables[i].parent = 0 THEN {}
    ELSE {tables[i].parent} \cup TablesAbove(tables, tables[i].parent)

\* the tables that hold the transcript: those of class completedCourses, and
\* every table when no table carries the class
TranscriptTables(tables) ==
    IF \E i \in 1..Len(tables) : tables[i].cls
    THEN { i \in 1..Len(tables) : tables[i].cls }
    ELSE 1..Len(tables)

\* C6: a transcript-shaped row of a table nested inside a cell of a transcript
\* table yields no TranscriptRow and reaches neither passed nor ip, with the
\* completedCourses class present and in the fallback that scans all tables.
C6_NestedTableExclusion ==
    (rowv.doc.kind = "tree" /\ rowv.path = "parseTdaEvidenceFromHtml") =>
        \A i \in 1..Len(rowv.doc.tables) :
            TablesAbove(rowv.doc.tables, i) \cap TranscriptTables(rowv.doc.tables) # {} =>
                /\ \A k \in 1..Len(rowv.rows) : rowv.rows[k].code # TreeCode(i)
                /\ TreeCode(i) \notin rowv.passed \cup rowv.ip

-----------------------------------------------------------------------------
(* Properties of the dual-source GE merge (SpecGe) *)

\* C10: in the merge of 3U with Z (modern schema) and of C.3 with Z (legacy
\* schema), when both sides carry the status complete or IP and resolve to
\* course codes that differ, the merged record has status tentative and the
\* note '<labelA>=<codeA>; <labelB>=<codeB>'.
C10_DualSourceTentative ==
    (/\ gev.done
     /\ gev.a.status \in {"complete", "IP"} /\ gev.z.status \in {"complete", "IP"}
     /\ gev.a.code # "" /\ gev.z.code # "" /\ gev.a.code # gev.z.code) =>
        /\ gev.rec.status = "tentative"
        /\ gev.rec.note = (IF gev.modern THEN "3U" ELSE "C.3") \o "=" \o gev.a.code
                              \o "; Z=" \o gev.z.code

\* 3U in progress with MUS 355 (printed in lower case), Z complete with HIST 110B
C10_Witness ==
    /\ gev.done /\ gev.modern
    /\ gev.a = Side(RowSlice("mus  355", "IP"), "IP", "MUS 355")
    /\ gev.z.status = "complete" /\ gev.z.code = "HIST 110B"
    /\ gev.rec = [code |-> "MUS 355", status |-> "tentative", note |-> "3U=MUS 355; Z=HIST 110B"]

\* exactly one of the two sides carries the status complete or IP
OneSideInPlay ==
    (gev.a.status \in {"complete", "IP"}) # (gev.z.status \in {"complete", "IP"})

LabelA == IF gev.modern THEN "3U" ELSE "C.3"

\* C11 as stated: when exactly one side carries a meaningful status (complete
\* or IP) and the other does not, the merged record is tentative and its note
\* renders the side without a meaningful status as '<label>=Needed' and the
\* other side as '<label>=<its code>'.
C11_UnilateralNeeded ==
    (gev.done /\ OneSideInPlay) =>
        /\ gev.rec.status = "tentative"
        /\ gev.rec.note =
              (IF gev.a.status \in {"complete", "IP"}
               THEN LabelA \o "=" \o gev.a.code ELSE LabelA \o "=Needed")
              \o "; " \o
              (IF gev.z.status \in {"complete", "IP"}
               THEN "Z=" \o gev.z.code ELSE "Z=Needed")

\* C11 as the code has it: when exactly one side carries a meaningful status
\* and the other does not, the merged record is tentative and its note is
\* '<labelA>=...; <labelB>=...' where each side is rendered by its course
\* code when its record has one (a failed row leaves a code without a status)
\* and as 'Needed' when it has none (an empty side, or a side complete by
\* waiver or certification).
C11_UnilateralTentative ==
    (gev.done /\ OneSideInPlay) =>
        /\ gev.rec.status = "tentative"
        /\ gev.rec.note =
              (IF gev.a.code # "" THEN LabelA \o "=" \o gev.a.code ELSE LabelA \o "=Needed")
              \o "; " \o
              (IF gev.z.code # "" THEN "Z=" \o gev.z.code ELSE "Z=Needed")

\* C.3 complete with MUS 355, Z holding only a failed HIST 110B row
C11_Witness ==
    /\ gev.done /\ ~gev.modern
    /\ gev.a.status = "complete" /\ gev.a.code = "MUS 355"
    /\ gev.z = Side(RowSlice("HIST 110B", "F"), "", "HIST 110B")
    /\ gev.rec.status = "tentative"
    /\ gev.rec.note = "C.3=MUS 355; Z=HIST 110B"

\* C12: when both sides are complete with the identical course code, the
\* merged record is complete with that code and carries no note; it is never
\* tentative.
C12_IdenticalCodesComplete ==
    (/\ gev.done
     /\ gev.a.status = "complete" /\ gev.z.status = "complete"
     /\ gev.a.code # "" /\ gev.a.code = gev.z.code) =>
        gev.rec = [code |-> gev.a.code, status |-> "complete", note |-> ""]

\* 3U prints the course as 'mus  355', Z as 'MUS 355': one code, plain complete
C12_Witness ==
    /\ gev.done /\ gev.modern
    /\ gev.a = Side(RowSlice("mus  355", "A"), "complete", "MUS 355")
    /\ gev.z = Side(RowSlice("MUS 355", "A"), "complete", "MUS 355")
    /\ gev.rec = [code |-> "MUS 355", status |-> "complete", note |-> ""]

-----------------------------------------------------------------------------
(* Substitution hints on the free-text paths (SpecRows) *)

\* C13: on the free-text paths a hint '*<label> SUBS <dept> <num>*' makes its
\* target count as passed only if the label also appears elsewhere in the
\* document attributed to an institution ('<institution>: <label>'); an
\* uncorroborated hint never adds its target to passed (the target is then in
\* passed only through a passing transcript row of its own).
C13_SubstitutionCorroborated ==
    (/\ rowv.path \in {"parseTdaPassedCodes", "parseTdaEvidence"}
     /\ rowv.doc.kind = "subs"
     /\ "CPSC 131" \in rowv.passed) =>
        \/ rowv.doc.grade = "A"
        \/ rowv.path = "parseTdaPassedCodes" /\ rowv.doc.mentions \cap InstitutionMentions # {}

\* the hint with the label in running text and a longer label after the
\* institution, the target on no row: CPSC 131 is not passed
C13_Witness ==
    /\ rowv.path = "parseTdaPassedCodes"
    /\ rowv.doc.kind = "subs" /\ rowv.doc.grade = ""
    /\ rowv.doc.mentions = { [before |-> "see ", text |-> "CIST 4B"],
                             [before |-> "WValleyC: ", text |-> "CIST 4BX"] }
    /\ rowv.passed = {}

-----------------------------------------------------------------------------
(* The structural overlays of the HTML path (SpecRows) *)

\* the audit without its Area 6 panel
WithoutReq6(doc) == [HtmlOf(doc) EXCEPT !.req6 = NoPanel]

\* C14: if the GE Area 6 overlay throws, the failure is caught locally:
\* parseTdaEvidenceFromHtml still returns (no exception leaves it, so the
\* import run is not aborted), and the rows, passed, ip, subs, ge and tech it
\* returns are those computed from the rest of the document, i.e. those of
\* the same audit without the panel.  (No operation of the GRADGOV block can
\* throw on a parsed document, so its catch block is never entered.)
C14_OverlayFailureContained ==
    (rowv.path = "parseTdaEvidenceFromHtml" /\ rowv.more.overlayThrew) =>
        /\ ~rowv.more.thrown
        /\ rowv.rows = parseTdaCourseRowsFromHtml(rowv.doc.tables)
        /\ "CPSC 120" \in rowv.passed
        /\ rowv.more.subs = ("CPSC 131" :> "CIST 4B")
        /\ rowv.more.tech = [completed |-> << "CPSC 481" >>, ip |-> <<>>]
        /\ rowv.more.ge6 = SlotOf(parseGeFromTda(rowv.doc.html.geText).items, "6")
        /\ \E rest \in { (parseTdaEvidenceFromHtml(WithoutReq6(rowv.doc))) } :
              /\ rowv.passed = rest.passed /\ rowv.ip = rest.ip /\ rowv.rows = rest.rows
              /\ rowv.more.subs = rest.subs /\ rowv.more.tech = rest.tech
              /\ rowv.more.ge6 = SlotOf(rest.ge.items, "6")

\* a DOM without :scope, the panel complete with an empty local table and the
\* certification only in a course cell: the search throws, slot 6 keeps the
\* record of the text (AFAM 107) and POSC 100 still comes from the GRADGOV panel
C14_Witness ==
    /\ rowv.path = "parseTdaEvidenceFromHtml" /\ rowv.more.overlayThrew
    /\ ~rowv.doc.html.scopeOk /\ rowv.doc.html.req6.certCell
    /\ rowv.doc.html.gradGov.cert
    /\ rowv.passed = {"CPSC 120", "POSC 100"}
    /\ rowv.more.ge6 = [code |-> "AFAM 107", status |-> "complete", note |-> ""]
    /\ ~rowv.more.thrown

\* the slot-6 record the text slicer derived before the overlay
TextSlot6 == SlotOf(parseGeFromTda(rowv.doc.html.geText).items, "6")

\* C19: the Area 6 certification overlay changes the slot-6 record only when
\* no real transcript row already satisfied slot 6: a slot-6 record derived
\* from a real transcript row (complete or IP, with a course code) is never
\* replaced by the certification record {code: null, note: 'F CSU CERT'}.
C19_OverlayPrecondition ==
    (/\ rowv.path = "parseTdaEvidenceFromHtml" /\ rowv.doc.kind = "panel"
     /\ TextSlot6.code # "" /\ TextSlot6.status \in {"complete", "IP"}) =>
        rowv.more.ge6 # [code |-> "", status |-> "complete", note |-> "F CSU CERT"]

-----------------------------------------------------------------------------
(* Code normalization (SpecNorm) *)

\* C15: code normalization is idempotent: normCode(normCode(x)) = normCode(x)
\* for every input string x, including glued dept+digits, runs of hyphens and
\* white space, and the POLSC 1 alias.
C15_NormCodeIdempotent ==
    eqv.applied = 2 => eqv.twice = eqv.once

\* 'polsc-01' is POSC 100 after one application and after two
C15_Witness ==
    /\ eqv.applied = 2 /\ eqv.x = "polsc-01"
    /\ eqv.once = "POSC 100" /\ eqv.twice = "POSC 100"

-----------------------------------------------------------------------------
(* The plan check (SpecPlan) *)

Scheduled == {"Fall", "Spr", "Sum", "Win", "Com. College", "In Prog."}

\* the set of ids in a sequence of ids
IdsOf(ids) == { ids[i] : i \in 1..Len(ids) }

\* C16: checkPlan reports a 'missing prereq(s)/coreq(s)' problem for a course
\* exactly when the course carries a scheduled label (Fall, Spr, Sum, Win,
\* Com. College, In Prog.) and at least one of its prereqs or coreqs carries
\* neither a scheduled label nor a strike; a struck prerequisite counts as
\* satisfied, and a course that is itself struck or unlabeled is never
\* reported for missing prerequisites.
C16_MissingPrereqs ==
    planv.done =>
        \A c \in DOMAIN PlanMap :
            LET reported == \E i \in 1..Len(planv.problems) :
                               /\ planv.problems[i].kind = "missing"
                               /\ planv.problems[i].course = PlanMap[c].code
                needs    == IdsOf(PlanMap[c].prereqs) \cup IdsOf(PlanMap[c].coreqs)
            IN  /\ reported <=>
                      /\ planv.labels[c] \in Scheduled
                      /\ \E q \in needs : planv.labels[q] \notin Scheduled \cup {"__strike__"}
                /\ planv.labels[c] \in {"", "__strike__"} => ~reported

\* EGEC 471 in Spr, its prereq EGEC 450 struck, its prereq CPSC 131 marked
\* Review, its coreq unlabeled: one problem naming CPSC 131 and EGEC 471L
C16_Witness ==
    /\ planv.done
    /\ planv.labels = [A |-> "Spr", B |-> "__strike__", C |-> "", D |-> "Review"]
    /\ planv.problems = << [kind |-> "missing", course |-> "EGEC 471",
                            pre |-> << "CPSC 131" >>, co |-> << "EGEC 471L" >>,
                            label |-> ""] >>

-----------------------------------------------------------------------------
(* GE allocation of an import (Spec) *)

\* the entries step 6 of the last commit wrote, in order
GeWrites == last.stages.afterGe.writes

\* the nodes whose display label names requirement key number j of the schema
\* the committed audit uses
LabeledFor(j) ==
    LET b == Buckets[IF last.stages.ge.isModern THEN "modern" ELSE "legacy"][j]
    IN  { b[i] : i \in 1..Len(b) }

CommittedCats == TargetCats(last.stages.ge.isModern)

\* C17: if requirement key K has an entry to allocate and the chart has a GE
\* node whose display label names K and which carries no label or note after
\* the in-progress and technical-elective steps, then K's entry is written to
\* a node labeled for K (neither placed on a generic GE node nor dropped), and
\* that labeled node does not receive another key's entry.
C17_LabeledNodePreferred ==
    last.op = "commit" =>
        \A j \in 1..Len(CommittedCats) :
            (\E n \in LabeledFor(j) : /\ last.stages.afterTech.labels[n] = ""
                                      /\ last.stages.afterTech.notes[n] = "") =>
                /\ \E i \in 1..Len(GeWrites) :
                      GeWrites[i].cat = CommittedCats[j] /\ GeWrites[i].id \in LabeledFor(j)
                /\ \A i \in 1..Len(GeWrites) :
                      GeWrites[i].id \in LabeledFor(j) => GeWrites[i].cat = CommittedCats[j]

\* C18: GE allocation never writes a node twice: within one import every GE
\* node receives the entry of at most one requirement key, so a note or label
\* written for one key is never overwritten by a later key's entry.
C18_GeNodeWrittenOnce ==
    last.op = "commit" =>
        \A i, k \in 1..Len(GeWrites) : GeWrites[i].id = GeWrites[k].id => i = k

-----------------------------------------------------------------------------
(* Technical electives (SpecRows) *)

\* the one course-code occurrence of a technical-electives document
TechWindow == rowv.doc.html.techWins[1]

\* C20: a course-code occurrence in the technical-electives section whose
\* window (the text between it and the next occurrence or the section end)
\* begins with an articulation marker such as an equals sign is skipped
\* entirely: its code is added to neither tech.completed nor tech.ip, whatever
\* units, grade or IP tokens the window contains.
C20_ArticulationSkipped ==
    (/\ rowv.path = "parseTdaEvidenceFromHtml" /\ rowv.doc.kind = "tech"
     /\ Ch(Trim(TechWindow.after), 1) \in {"=", "-"}) =>
        /\ rowv.more.tech.completed = <<>>
        /\ rowv.more.tech.ip = <<>>

-----------------------------------------------------------------------------
(* Status inference on a GE slice (SpecPick) *)

\* the first row the slice shows is graded IP / has a passing grade
FirstIp == gev.a.first = "IP"

FirstPassing == gev.a.first \in {"A", "A-", "B+", "B", "B-", "C+", "C", "C-", "CR", "P"}

\* C21: the status of a slice is decided by the first applicable rule: (1) a
\* completion-by-certification phrase gives complete with a note, whatever the
\* rows; (3) the first transcript row gives IP when graded IP and complete
\* when passing, also under an 'unfulfilled' phrase (2); (4) with no row, an
\* area-tag certification mention gives complete with note '<area> CSU CERT';
\* (5) a 'waived' phrase gives complete with note 'Waived'; (6) otherwise the
\* slot is missing.  A slice with a waived phrase that rules 1-4 did not
\* decide is complete.  (Slices with an effective 'unfulfilled' phrase are
\* held to rules 1 and 3 only.)
C21_StatusInference ==
    gev.done =>
        IF gev.a.slice.met
        THEN gev.rec.status = "complete" /\ gev.rec.note # ""
        ELSE IF FirstIp THEN gev.rec.status = "IP"
        ELSE IF FirstPassing THEN gev.rec.status = "complete"
        ELSE IF gev.a.slice.unfulfilled /\ ~gev.a.slice.fulfilled THEN TRUE
        ELSE IF gev.a.first = "" /\ gev.a.slice.cert # ""
        THEN gev.rec.status = "complete" /\ gev.rec.note = gev.a.slice.cert \o " CSU CERT"
        ELSE IF gev.a.slice.waived
        THEN gev.rec.status = "complete" /\ gev.rec.note = "Waived"
        ELSE gev.rec.status = ""

-----------------------------------------------------------------------------
(* GE notes of an import (SpecImport) *)

\* the GE record of requirement key cat in the committed audit
GeRec(cat) == last.stages.ge.items[cat]

\* the node of the i-th write of step 6 was written by no other entry
WrittenOnce(i) == \A k \in 1..Len(GeWrites) : GeWrites[k].id = GeWrites[i].id => k = i

\* C22: a GE requirement key that is complete by waiver (no course code) is
\* allocated a placeholder that is struck and whose note is '<key> (Waived)';
\* a key complete with a course code gets the note '<code> (<key>)'.
C22_WaivedNoteShape ==
    last.op = "commit" =>
        \A i \in 1..Len(GeWrites) :
            (GeWrites[i].kind = "complete" /\ WrittenOnce(i)) =>
                LET cat == GeWrites[i].cat
                    id  == GeWrites[i].id
                IN  /\ last.stages.afterGe.labels[id] = STRIKE
                    /\ GeRec(cat).code # "" =>
                          last.stages.afterGe.notes[id] = GeRec(cat).code \o " (" \o cat \o ")"
                    /\ (GeRec(cat).code = "" /\ GeRec(cat).note = "Waived") =>
                          last.stages.afterGe.notes[id] = cat \o " (Waived)"

-----------------------------------------------------------------------------
(* Codes without equivalency entry (SpecEquiv) *)

\* C23: for a code with no equivalency entry, isIpMatch(code, ipSet) is
\* exactly the membership test 'normalized code is in ipSet', for every code
\* the transcript row parsers can emit (2-6 letter department, 3-4 digit
\* number, optional letter / lab suffix).
C23_DirectMembership ==
    (eqv.ipDone /\ eqv.q.form = "plain") =>
        (eqv.ip <=> normCode(eqv.q.text) \in eqv.set)

-----------------------------------------------------------------------------
(* GE slicing (SpecSlice) *)

\* the places of the sliced text that hold the slot's header / a header of the
\* modern schema other than the slot's
SlotPlaces == { i \in 1..Len(gev.a.text) : gev.a.text[i] = gev.a.key }

OtherPlaces ==
    { i \in 1..Len(gev.a.text) :
        /\ gev.a.text[i] # gev.a.key
        /\ gev.a.text[i] \in {"1C", "3A", "3B", "4B", "6", "3U", "Z",
                              "_5A", "_5B", "_5C", "_2U5U", "_4A", "_4U", "_UDGE"} }

\* C24: the slice for a slot starts at the first occurrence of the slot's
\* header and ends at the nearest later occurrence of any other schema header
\* (boundary-only headers included); it runs to the end of the document only
\* if no other schema header occurs after the start, even when those headers
\* also occur earlier in the document.
C24_SliceToNearestLaterHeader ==
    (gev.done /\ SlotPlaces # {}) =>
        LET start == CHOOSE i \in SlotPlaces : \A j \in SlotPlaces : i <= j
            later == { i \in OtherPlaces : i > start }
            stop  == IF later = {} THEN Len(gev.a.text)
                     ELSE (CHOOSE i \in later : \A j \in later : i <= j) - 1
        IN  gev.rec = SubSeq(gev.a.text, start, stop)

\* the boundary header 5A stands before the 1C header and again after it
C24_Witness ==
    /\ gev.done
    /\ gev.a = [text |-> [i \in 1..5 |-> <<"_5A", "1C", "row", "_5A", "row">>[i]], key |-> "1C"]
    /\ gev.rec = <<"1C", "row">>

-----------------------------------------------------------------------------
(* In-progress markers of a table row (SpecRows) *)

\* the one <tr> of a status document
StatusRow == rowv.doc.tables[1].rows[1]

\* its status cell reads IP, or the <tr> carries the class ip / inprog
MarkedIp ==
    \/ Len(StatusRow.cells) >= 5 /\ ToUpper(Trim(StatusRow.cells[5])) = "IP"
    \/ StatusRow.ipClass

\* C25: for an accepted table row, if the status cell is 'IP' or the row
\* carries the marker class ip / inprog, the effective grade is IP whatever
\* the grade cell holds (empty or a passing grade), so that the row adds its
\* code to ip and not to passed.
C25_StatusForcesIp ==
    (/\ rowv.path = "parseTdaEvidenceFromHtml" /\ rowv.doc.kind = "status"
     /\ MarkedIp) =>
        /\ Len(rowv.rows) = 1 /\ rowv.rows[1].grade = "IP"
        /\ "MATH 150A" \in rowv.ip
        /\ "MATH 150A" \notin rowv.passed

\* grade cell A, status cell ' ip', no class: the row counts as in progress
C25_Witness ==
    /\ rowv.path = "parseTdaEvidenceFromHtml" /\ rowv.doc.kind = "status"
    /\ StatusRow.cells = <<"FA24", "MATH 150A", "4.0", "A", " ip">> /\ ~StatusRow.ipClass
    /\ rowv.rows[1].grade = "IP"
    /\ rowv.ip = {"MATH 150A"} /\ rowv.passed = {}


-----------------------------------------------------------------------------
(* The completion strike pass (SpecImport) *)

\* the set of ids the strike pass of the committed import collected
StruckIds == { last.stages.toStrikeIds[k] : k \in 1..Len(last.stages.toStrikeIds) }

\* the codes EGCP / EGEE / EGCE / EGME n of a chart code EGEC n
CrossDept(code) ==
    IF Take(code, 5) = "EGEC " THEN { d \o Drop(code, 4) : d \in {"EGCP", "EGEE", "EGCE", "EGME"} }
    ELSE {}

\* the code of a chart node is satisfied by the passed set
SatisfiedBy(c, passed) ==
    \/ isSatisfiedWithEquivs(normCode(c.code), passed)
    \/ normCode(c.code) \in passed
    \/ CrossDept(normCode(c.code)) \cap passed # {}

\* C26: the completion strike pass never strikes a Tech Elective node, nor a
\* GE node unless its code is ENGL 101 or POSC 100, even when the node's code
\* is in passed; every other node is struck iff the equivalency rule, direct
\* membership in passed, or a cross-department alternate of EGEC n matches.
C26_StrikeEligibility ==
    last.op = "commit" =>
        \A i \in 1..Len(Chart) :
            LET c == Chart[i]
                passed == Evidence(last.file).passed
            IN  IF c.category = "Tech Elective" THEN c.id \notin StruckIds
                ELSE IF c.category = "GE" /\ normCode(c.code) \notin {"ENGL 101", "POSC 100"}
                THEN c.id \notin StruckIds
                ELSE c.id \in StruckIds <=> SatisfiedBy(c, passed)

\* an import whose passed set holds the codes of a Tech Elective node and of a
\* GE node that is not whitelisted, and of the whitelisted ENGL 101
C26_Witness ==
    /\ last.op = "commit"
    /\ {"EGEC 450", "HIST 110A", "ENGL 101"} \subseteq Evidence(last.file).passed
    /\ "ENGL101" \in StruckIds
    /\ "TE450" \notin StruckIds /\ "HIST110A" \notin StruckIds

\* an import that strikes EGEC 180 on the strength of EGCP 180 alone
C26_WitnessAlternate ==
    /\ last.op = "commit"
    /\ "EGCP 180" \in Evidence(last.file).passed
    /\ "EGEC 180" \notin Evidence(last.file).passed
    /\ "EGEC180" \in StruckIds


-----------------------------------------------------------------------------
(* The order of GE allocation (SpecImport) *)

\* every call of consumeGeForCat by step 6 of the last commit, in order
GeTries == last.stages.afterGe.tries

\* the queue an entry of the committed audit belongs to
EntryKind(cat) ==
    LET items == last.stages.ge.items
        status == IF cat \in DOMAIN items THEN items[cat].status ELSE ""
    IN  IF status = "complete" THEN "complete"
        ELSE IF status = "IP" /\ items[cat].code # "" THEN "IP"
        ELSE IF status = "tentative" THEN "tentative"
        ELSE "missing"

KindRank(kind) ==
    IF kind = "complete" THEN 1 ELSE IF kind = "IP" THEN 2 ELSE IF kind = "tentative" THEN 3 ELSE 4

CatRank(cat) == CHOOSE j \in 1..Len(CommittedCats) : CommittedCats[j] = cat

\* the call made for a key found a placeholder
Served(cat) == \E i \in 1..Len(GeTries) : GeTries[i].cat = cat /\ GeTries[i].id # ""

Tried(cat) == \E i \in 1..Len(GeTries) : GeTries[i].cat = cat

\* the calls that wrote node id, and among them those that wrote a label
WritersOf(id) == { i \in 1..Len(GeTries) : GeTries[i].id = id }

LabelWritersOf(id) == { i \in WritersOf(id) : GeTries[i].kind # "missing" }

Latest(S) == CHOOSE i \in S : \A k \in S : k <= i

\* C27: complete entries take placeholders first, then IP entries (label
\* 'In Prog.'), then tentative entries (label 'Review', note = the merge note),
\* then missing entries (note = the bare key, no label written); within one
\* queue the entries are served in target-key order; once an entry of a queue
\* finds no placeholder the rest of that queue is dropped and not retried,
\* while the later queues are still attempted.
C27_AllocationOrder ==
    last.op = "commit" =>
        /\ \A i, k \in 1..Len(GeTries) :
              i < k => \/ KindRank(GeTries[i].kind) < KindRank(GeTries[k].kind)
                       \/ /\ GeTries[i].kind = GeTries[k].kind
                          /\ CatRank(GeTries[i].cat) < CatRank(GeTries[k].cat)
        /\ \A i \in 1..Len(GeTries) : GeTries[i].kind = EntryKind(GeTries[i].cat)
        /\ \A j \in 1..Len(CommittedCats) :
              Tried(CommittedCats[j]) <=>
                  \A k \in 1..(j - 1) :
                      EntryKind(CommittedCats[k]) = EntryKind(CommittedCats[j]) =>
                          Served(CommittedCats[k])
        /\ \A i \in 1..Len(GeTries) :
              GeTries[i].id = "" =>
                  \A n \in IdsOf(last.stages.afterGe.open) \cup LabeledFor(CatRank(GeTries[i].cat)) :
                      \/ \E k \in 1..(i - 1) : GeTries[k].id = n
                      \/ last.stages.afterTech.labels[n] # ""
                      \/ last.stages.afterTech.notes[n] # ""
        /\ \A id \in NodeIds :
              IF WritersOf(id) = {}
              THEN /\ last.stages.afterGe.labels[id] = last.stages.afterTech.labels[id]
                   /\ last.stages.afterGe.notes[id] = last.stages.afterTech.notes[id]
              ELSE LET w == GeTries[Latest(WritersOf(id))]
                   IN  /\ w.kind = "missing" => last.stages.afterGe.notes[id] = w.cat
                       /\ w.kind = "tentative" =>
                              last.stages.afterGe.notes[id] = last.stages.ge.items[w.cat].note
                       /\ last.stages.afterGe.labels[id] =
                              IF LabelWritersOf(id) = {} THEN ""
                              ELSE LET k == GeTries[Latest(LabelWritersOf(id))].kind
                                   IN  IF k = "complete" THEN "__strike__"
                                       ELSE IF k = "IP" THEN "In Prog." ELSE "Review"

\* an import in which a queue ran out of placeholders and left an entry
\* untried, and a later queue was tried all the same
C27_Witness ==
    /\ last.op = "commit"
    /\ \E i, k \in 1..Len(GeTries) :
          /\ GeTries[i].id = "" /\ i < k
          /\ KindRank(GeTries[i].kind) < KindRank(GeTries[k].kind)
          /\ \E c \in IdsOf(CommittedCats) : EntryKind(c) = GeTries[i].kind /\ ~Tried(c)

\* an import that served entries of three queues, each on its own node
C27_WitnessThreeQueues ==
    /\ last.op = "commit"
    /\ \E i, k, m \in 1..Len(GeTries) :
          /\ GeTries[i].kind = "complete" /\ GeTries[k].kind = "IP" /\ GeTries[m].kind = "missing"
          /\ GeTries[i].id # "" /\ GeTries[k].id # "" /\ GeTries[m].id # ""
          /\ WritersOf(GeTries[m].id) = {m} /\ last.stages.afterGe.labels[GeTries[m].id] = ""


-----------------------------------------------------------------------------
(* Substitution notes (SpecImport) *)

\* the target code a substitution hint of the audit names
HintTarget(h) == h.dept \o " " \o h.num

\* the audit has a transcript row for the code
HasCourseRow(doc, code) ==
    \E t \in 1..Len(doc.tables) :
        \E r \in 1..Len(doc.tables[t].rows) : doc.tables[t].rows[r].cells[2] = code

\* C28: a substitution entry alone never strikes a node.  A substitution hint
\* of the audit is recorded in subs without adding its target to passed; a node
\* receives the substitute label as its note only if the completion strike
\* pass struck it, a substitution entry exists for its normalized code and it
\* had no note yet; an existing note is never overwritten.
C28_SubstitutionAnnotation ==
    last.op = "commit" =>
        LET ev  == Evidence(last.file)
            doc == Audit(last.file).doc
            st  == last.stages
        IN  /\ \A k \in 1..Len(doc.hints) :
                  /\ HintTarget(doc.hints[k]) \in DOMAIN ev.subs
                  /\ ev.subs[HintTarget(doc.hints[k])] = doc.hints[k].label
                  /\ HintTarget(doc.hints[k]) \in ev.passed =>
                        HasCourseRow(doc, HintTarget(doc.hints[k]))
            /\ \A i \in 1..Len(Chart) :
                  LET c == Chart[i]
                  IN  /\ (normCode(c.code) \in DOMAIN ev.subs /\ ~SatisfiedBy(c, ev.passed)) =>
                            /\ c.id \notin StruckIds
                            /\ st.nextLabels[c.id] = st.afterGe.labels[c.id]
                            /\ st.nextNotes[c.id] = st.afterGe.notes[c.id]
                      /\ st.nextNotes[c.id] # st.afterGe.notes[c.id] =>
                            /\ c.id \in StruckIds
                            /\ normCode(c.code) \in DOMAIN ev.subs
                            /\ st.afterGe.notes[c.id] = ""
                            /\ st.nextNotes[c.id] = ev.subs[normCode(c.code)]
                      /\ st.afterGe.notes[c.id] # "" => st.nextNotes[c.id] = st.afterGe.notes[c.id]

\* an import that struck CPSC 131 and POSC 100, both named by a substitution
\* hint: CPSC 131 had no note and received the label CIST 4B, POSC 100 kept the
\* note the GE step had written
C28_Witness ==
    /\ last.op = "commit"
    /\ {"CPSC131", "POSC100"} \subseteq StruckIds
    /\ {"CPSC 131", "POSC 100"} \subseteq DOMAIN Evidence(last.file).subs
    /\ last.stages.nextNotes["CPSC131"] = "CIST 4B"
    /\ last.stages.afterGe.notes["POSC100"] # ""
    /\ last.stages.nextNotes["POSC100"] = last.stages.afterGe.notes["POSC100"]

\* an import of an audit with the hint CIST 4B SUBS CPSC 131 and no passing
\* row of CPSC 131: the node is neither struck nor annotated
C28_WitnessHintAlone ==
    /\ last.op = "commit"
    /\ "CPSC 131" \in DOMAIN Evidence(last.file).subs
    /\ "CPSC 131" \notin Evidence(last.file).passed
    /\ last.stages.nextLabels["CPSC131"] = "" /\ last.stages.nextNotes["CPSC131"] = ""


-----------------------------------------------------------------------------
(* What a committed strike rests on (SpecImport) *)

\* the node may be struck by the completion strike pass
EligibleNode(c) ==
    \/ c.category \notin {"GE", "Tech Elective"}
    \/ normCode(c.code) \in {"ENGL 101", "POSC 100"}

\* C29: in the result an import commits, every node labeled __strike__ is an
\* eligible node whose code is satisfied by passed (equivalency rule, direct
\* membership or EGEC alternate), or a Tech Elective node that was allocated a
\* code of tech.completed, or a GE node that was allocated a GE entry with
\* status complete; no node is struck on in-progress, tentative or missing
\* evidence.
C29_StrikeSoundness ==
    last.op = "commit" =>
        \A i \in 1..Len(Chart) :
            LET c  == Chart[i]
                ev == Evidence(last.file)
            IN  last.stages.nextLabels[c.id] = "__strike__" =>
                    \/ EligibleNode(c) /\ SatisfiedBy(c, ev.passed)
                    \/ /\ c.category = "Tech Elective"
                       /\ last.stages.nextNotes[c.id] \in IdsOf(ev.tech.completed)
                       /\ last.stages.nextNotes[c.id] \notin IdsOf(ev.tech.ip)
                    \/ /\ c.category = "GE"
                       /\ LabelWritersOf(c.id) # {}
                       /\ LET w == GeTries[Latest(LabelWritersOf(c.id))]
                          IN  w.kind = "complete" /\ last.stages.ge.items[w.cat].status = "complete"

\* an import that strikes a major node on passed, a Tech Elective node on a
\* completed elective and a GE placeholder on a complete entry, and leaves
\* unstruck a Tech Elective node and a GE placeholder given in-progress evidence
C29_Witness ==
    /\ last.op = "commit"
    /\ last.stages.nextLabels["CPSC131"] = "__strike__"
    /\ last.stages.nextLabels["TE1"] = "__strike__"
    /\ last.stages.nextLabels["TE2"] = "In Prog."
    /\ \E i, k \in 1..Len(GeTries) :
          /\ GeTries[i].kind = "complete" /\ GeTries[i].id # ""
          /\ last.stages.nextLabels[GeTries[i].id] = "__strike__"
          /\ GeTries[k].kind = "IP" /\ GeTries[k].id # ""
          /\ last.stages.nextLabels[GeTries[k].id] = "In Prog."


-----------------------------------------------------------------------------
(* A course both in progress and completed (SpecImport) *)

\* the code of a chart node is matched by the ip set
InProgressBy(c, ip) ==
    \/ isIpMatch(normCode(c.code), ip)
    \/ CrossDept(normCode(c.code)) \cap ip # {}

\* C30: the strike pass runs after the in-progress pass and writes the same
\* label map, so an eligible node whose code is matched by both the ip set and
\* the passed set ends with label __strike__, not 'In Prog.'; every node ends
\* with at most one label.
C30_CompletionOverridesIp ==
    last.op = "commit" =>
        \A i \in 1..Len(Chart) :
            LET c  == Chart[i]
                ev == Evidence(last.file)
            IN  /\ InProgressBy(c, ev.ip) => last.stages.afterIp.labels[c.id] = "In Prog."
                /\ (EligibleNode(c) /\ InProgressBy(c, ev.ip) /\ SatisfiedBy(c, ev.passed)) =>
                       /\ last.stages.nextLabels[c.id] = "__strike__"
                       /\ labels[c.id] = "__strike__"
                /\ last.stages.nextLabels[c.id] \in {"", "__strike__", "In Prog.", "Review"}
                /\ labels[c.id] = last.stages.nextLabels[c.id]

\* an import of an audit with two rows of CPSC 131, one in progress and one
\* with a passing grade
C30_Witness ==
    /\ last.op = "commit"
    /\ "CPSC 131" \in Evidence(last.file).ip \cap Evidence(last.file).passed
    /\ last.stages.afterIp.labels["CPSC131"] = "In Prog."
    /\ labels["CPSC131"] = "__strike__"

\* an import that strikes EGEC 180, in progress under its own code and passed
\* as EGCP 180, and one that strikes the whitelisted POSC 100 likewise
C30_WitnessAlternate ==
    /\ last.op = "commit"
    /\ \/ /\ "EGEC 180" \in Evidence(last.file).ip /\ "EGCP 180" \in Evidence(last.file).passed
          /\ labels["EGEC180"] = "__strike__"
       \/ /\ "POSC 100" \in Evidence(last.file).ip \cap Evidence(last.file).passed
          /\ labels["POSC100"] = "__strike__"

====
